---- MODULE Spec2Model ----
(***************************************************************************)
(* ACMProBot (src/main.py): the config store, the scheduled-post runner    *)
(* and the dispatcher, as a state machine.  One action is the code a       *)
(* handler runs between two awaits of the asyncio event loop.              *)
(***************************************************************************)
EXTENDS Integers, Sequences, FiniteSets, TLC

\* ------------------------------------------------------------ bounds
MaxJobs == 2          \* job records in the store at start
MaxTicks == 2         \* run_scheduled_jobs invocations that may be in flight
MaxRetriesBound == 2  \* largest settings.max_retries tried
MaxAdvances == 1      \* clock advances in one behaviour
MaxUploads == 2       \* text-file downloads that may be in flight
MaxReadGap == 1       \* seconds that may pass between two reads of the clock in one call
MaxBatchTried == 2         \* messages put into the batch before and during a post
MaxPostsTried == 1         \* immediate posts of the operator
MaxModuleBatch == 2   \* messages collected by handlers/batch.py
MaxQueued == 2        \* jobs in the queue of handlers/schedule.py
MaxFixedChannels == 3 \* entries of config/fixed_channels.json
MaxPieces == 5        \* pieces (characters, line ends) of an uploaded text file

\* ------------------------------------------------- program constants
FreshSeconds == 60    \* get_config: cache freshness window
GraceSeconds == 3600  \* cleanup_expired_jobs: timedelta(hours=1)
DaySeconds == 86400   \* timedelta.seconds is the remainder modulo one day
MAX_BATCH_MESSAGES == 100
MAX_RETRIES == 3
POST_DELAY_SECONDS == 1   \* 0.1 s, in tenths of a second (the unit of a delay)
MAX_MESSAGE_LENGTH == 4096
MAX_FOOTER_LENGTH == 200

JobIds == 1..MaxJobs
TickIds == 1..MaxTicks
ChannelIds == {1, 2}
OwnerId == 1
OperatorId == OwnerId + 1
\* POST_DELAY_SECONDS is 0.1: delays are counted in tenths of a second
SecondTenths == 10

\* the callback data that start the settings conversation
SettingTypes == {"set_delay", "set_retries", "set_footer"}

\* A text the operator sends, after strip(): its number of characters, the
\* number float() reads from it in tenths (if float() accepts it), whether
\* int() accepts it too, and whether it is the word "clear".
NumberText(tenths, integer, length) ==
    [float |-> TRUE, tenths |-> tenths, integer |-> integer, length |-> length,
     clear |-> FALSE]

PlainText(length) ==
    [float |-> FALSE, tenths |-> 0, integer |-> FALSE, length |-> length,
     clear |-> FALSE]

ClearText == [float |-> FALSE, tenths |-> 0, integer |-> FALSE, length |-> 5, clear |-> TRUE]

\* the texts tried: "0", "2", "0.5", "11", "10.1", "-1", a word, a text of
\* MAX_FOOTER_LENGTH characters, one character more, and "clear"
SettingInputs ==
    {NumberText(0, TRUE, 1), NumberText(2 * SecondTenths, TRUE, 1),
     NumberText(5, FALSE, 3), NumberText(11 * SecondTenths, TRUE, 2),
     NumberText(10 * SecondTenths + 1, FALSE, 4), NumberText(0 - SecondTenths, TRUE, 2),
     PlainText(4), PlainText(MAX_FOOTER_LENGTH), PlainText(MAX_FOOTER_LENGTH + 1),
     ClearText}

\* "0", "2" and a word
FewSettingInputs ==
    {NumberText(0, TRUE, 1), NumberText(2 * SecondTenths, TRUE, 1), PlainText(4)}

\* the ids add_admin and remove_admin are called with
UserIds == {OwnerId, OperatorId, OperatorId + 1}

\* what CONFIG_FILE is to _load: a JSON document, missing, text that is not
\* JSON, bytes that are not UTF-8
FileStates == {"json", "absent", "garbage", "not_utf8"}
\* a stored schedule_time: iso says whether datetime.fromisoformat accepts the
\* string (a missing field reads as "", which it rejects), at is the instant
BadTime == [iso |-> FALSE, at |-> 0]
IsoTime(t) == [iso |-> TRUE, at |-> t]

\* the clock step tried: just past the freshness window
ClockStep == FreshSeconds + 1

VARIABLES
    now,            \* datetime.now(), in seconds
    config,         \* ConfigManager._config (the dict object currently bound)
    file,           \* the content of CONFIG_FILE
    last_loaded,    \* ConfigManager._last_loaded
    ticks,          \* the run_scheduled_jobs invocations, one record per slot
    post,           \* the operator's execute_post invocation
    user_data,      \* context.user_data of the operator: batch, selected_channels
    advances,       \* clock advances made so far (bounds the behaviour)
    exec_count,     \* history: calls of execute_scheduled_job per job id
    cancelled,      \* history: job ids for which delete_schedule reported "deleted"
    sent_after_cancel, \* history: job ids a send started for after their cancel
    lost,           \* history: valid jobs that left the store neither executed nor cancelled
    missed,         \* history: jobs a finished tick found valid and due and did not execute and remove
    bad_left,       \* history: unparseable jobs a finished tick found and left in the store or executed
    all_failed,     \* history: jobs whose execution completed with every send failed
    last_tick,      \* history: the last operation that finished, when it was a tick
    done_log,       \* history: the last completed dispatch and the counters around it
    total_sent,     \* history: successful sends of all completed dispatches
    file_state,     \* what CONFIG_FILE is (see FileStates); file is its content when "json"
    process,        \* how the last store call of the process ended: "ok", "raised", "hung"
    conversation,   \* the state of the operator's ConversationHandler conversation, "END" if none
    uploads,        \* the operator's add_to_batch calls suspended in a text-file download
    unauthorized,   \* history: a handler changed state for a user who was not an admin
    missed_reload,  \* history: get_config returned a cache older than the freshness window
    call,           \* history: the last call of a function that touches no state, with its result
    standalone      \* the state of the modules main.py does not import (see Fresh)

vars == <<now, config, file, last_loaded, ticks, post, user_data, advances,
          exec_count, cancelled, sent_after_cancel, lost, missed, bad_left,
          all_failed, last_tick, done_log, total_sent,
          file_state, process, conversation, uploads, unauthorized, missed_reload,
          call, standalone>>

\* ------------------------------------------------------------ store
\* The store as one value threaded through the calls of a handler step:
\* config, file, file_state, last_loaded; snap, the stats of the dict object
\* that a reload in this step replaced (a reference taken before still reads
\* it); lock, the FileLock objects on CONFIG_LOCK this call chain holds;
\* outcome, "ok" while the chain runs, "raised" when an exception left _load,
\* "hung" when it waits for a lock that is never released.
NoSnap == [taken |-> FALSE, posts |-> 0, batches |-> 0]

Store ==
    [config |-> config, file |-> file, last_loaded |-> last_loaded, snap |-> NoSnap,
     file_state |-> file_state, lock |-> 0, outcome |-> "ok"]

\* datetime.fromisoformat(job_data.get("schedule_time", "")): raises ValueError
\* (Parses is FALSE) or returns the instant
Parses(schedule_time) == schedule_time.iso
fromisoformat(schedule_time) == schedule_time.at

\* a stored time with a UTC offset ("...+00:00"): fromisoformat returns a
\* datetime with tzinfo, at is its instant on the clock of datetime.now()
AwareTime(t) == [iso |-> TRUE, at |-> t, tzinfo |-> TRUE]

Aware(schedule_time) == "tzinfo" \in DOMAIN schedule_time

\* The try block around a stored time ends without an exception:
\* fromisoformat accepts the string, and the comparison with datetime.now(),
\* which has no tzinfo, does not raise TypeError ("can't compare
\* offset-naive and offset-aware datetimes").  except (ValueError, TypeError)
\* takes both.
Compares(schedule_time) == Parses(schedule_time) /\ ~Aware(schedule_time)

NoJobs == [j \in {} |-> 0]

ZeroStats == [posts |-> 0, batches |-> 0, last_post |-> -1, last_post_channels |-> <<>>]

NoAdminStats == [a \in {} |-> [posts |-> 0, batches |-> 0, last_action |-> -1]]

\* the two channels every default config starts with
FIXED_CHANNELS == [c \in ChannelIds |-> [name |-> c]]

\* the dict of _initialize_default_config
DefaultConfig ==
    [admins |-> <<OwnerId>>,
     channels |-> FIXED_CHANNELS,
     stats |-> ZeroStats,
     settings |-> [default_delay |-> POST_DELAY_SECONDS,
                   max_retries |-> MAX_RETRIES,
                   notifications |-> TRUE,
                   footer |-> 0],
     admin_stats |-> NoAdminStats,
     scheduled_posts |-> NoJobs]

\* the stats of the dict that st.config is, for the references still held to it
SnapOf(st) ==
    [taken |-> TRUE, posts |-> st.config.stats.posts, batches |-> st.config.stats.batches]

_initialize_default_config(st) ==
    [st EXCEPT !.config = DefaultConfig, !.snap = SnapOf(st)]

\* ConfigManager._save: "with lock" on a FileLock object of its own.  A second
\* FileLock object on the same lock file is not granted the lock while the
\* first holds it, in the same process too, and the default timeout waits for
\* ever.
_save(st) ==
    IF st.outcome # "ok" THEN st
    ELSE IF st.lock > 0 THEN [st EXCEPT !.outcome = "hung"]
    ELSE [st EXCEPT !.file = st.config, !.file_state = "json", !.last_loaded = now]

\* the end of a "with lock" block that was reached
Unlock(st) == IF st.outcome = "hung" THEN st ELSE [st EXCEPT !.lock = @ - 1]

\* ConfigManager._load.  "json": the file is read inside "with lock".
\* "absent": the defaults are set and _save is called inside "with lock".
\* "garbage": json.load raises JSONDecodeError, which leaves the with block
\* (the lock is released) and is caught: defaults, _save.  "not_utf8": the
\* read raises UnicodeDecodeError, a ValueError that the except clause
\* (IOError, json.JSONDecodeError, PermissionError) does not name.
_load(st) ==
    IF st.outcome # "ok" THEN st
    ELSE LET locked == [st EXCEPT !.lock = @ + 1]
         IN  CASE st.file_state = "json" ->
                    Unlock([locked EXCEPT !.config = st.file,
                                          !.last_loaded = now,
                                          !.snap = SnapOf(st)])
               [] st.file_state = "absent" ->
                    Unlock(_save(_initialize_default_config(locked)))
               [] st.file_state = "garbage" ->
                    _save(_initialize_default_config(st))
               [] st.file_state = "not_utf8" ->
                    [st EXCEPT !.outcome = "raised"]

\* (datetime.now() - self._last_loaded).seconds > 60
Stale(st) == ((now - st.last_loaded) % DaySeconds) > FreshSeconds

get_config(st) == IF Stale(st) THEN _load(st) ELSE st

get_scheduled_jobs(st) == get_config(st)

\* get_admins / get_channels: the store after the call; the list is read from it
get_admins(st) == get_config(st)

get_channels(st) == get_config(st)

\* "user_id in admins", on the store that get_admins left
IsAdmin(st, user_id) ==
    \E i \in DOMAIN st.config.admins : st.config.admins[i] = user_id

\* a dict without some of its keys
Without(jobs, ids) == [j \in DOMAIN jobs \ ids |-> jobs[j]]

\* the value add_channel returns
add_channel_returns(st, channel_id) ==
    channel_id \notin DOMAIN get_config(st).config.channels

\* add_channel without its test "if channel_id not in config['channels']"
add_channel_overwrite(st, channel_id, channel_info) ==
    LET s1 == get_config(st)
        old == s1.config.channels
    IN  _save([s1 EXCEPT !.config.channels =
                   [c \in DOMAIN old \cup {channel_id} |->
                       IF c = channel_id THEN channel_info ELSE old[c]]])

add_channel(st, channel_id, channel_info) ==
    LET s1 == get_config(st)
        old == s1.config.channels
    IN  IF channel_id \notin DOMAIN old
        THEN _save([s1 EXCEPT !.config.channels =
                       [c \in DOMAIN old \cup {channel_id} |->
                           IF c = channel_id THEN channel_info ELSE old[c]]])
        ELSE s1

\* the value remove_channel returns
remove_channel_returns(st, channel_id) ==
    channel_id \in DOMAIN get_config(st).config.channels

remove_channel(st, channel_id) ==
    LET s1 == get_config(st)
    IN  IF channel_id \in DOMAIN s1.config.channels
        THEN _save([s1 EXCEPT !.config.channels = Without(@, {channel_id})])
        ELSE s1

add_admin(st, admin_id) ==
    LET s1 == get_config(st)
    IN  IF ~IsAdmin(s1, admin_id)
        THEN _save([s1 EXCEPT !.config.admins = Append(@, admin_id)])
        ELSE s1

\* the value remove_admin returns
remove_admin_returns(st, admin_id) ==
    admin_id # OwnerId /\ IsAdmin(get_config(st), admin_id)

\* remove_admin without its first test "if admin_id == str(OWNER_ID)"
remove_admin_any(st, admin_id) ==
    LET s1 == get_config(st)
    IN  IF IsAdmin(s1, admin_id)
        THEN _save([s1 EXCEPT !.config.admins =
                        SelectSeq(@, LAMBDA a : a # admin_id)])
        ELSE s1

remove_admin(st, admin_id) ==
    IF admin_id = OwnerId
    THEN st
    ELSE LET s1 == get_config(st)
         IN  IF IsAdmin(s1, admin_id)
             THEN _save([s1 EXCEPT !.config.admins =
                             SelectSeq(@, LAMBDA a : a # admin_id)])
             ELSE s1

update_stats(st, stat_type, value) ==
    LET s1 == get_config(st)
    IN  _save([s1 EXCEPT !.config.stats[stat_type] = value])

\* an update that sets up the entry of the admin anew in every call
update_admin_stats_anew(st, admin_id, action) ==
    LET s1 == get_config(st)
        old == s1.config.admin_stats
        base == [a \in DOMAIN old \cup {admin_id} |->
                    IF a = admin_id
                    THEN [posts |-> 0, batches |-> 0, last_action |-> -1]
                    ELSE old[a]]
        new == [base EXCEPT ![admin_id][action] = @ + 1,
                            ![admin_id].last_action = now]
    IN  _save([s1 EXCEPT !.config.admin_stats = new])

update_admin_stats(st, admin_id, action) ==
    LET s1 == get_config(st)
        old == s1.config.admin_stats
        base == IF admin_id \in DOMAIN old
                THEN old
                ELSE [a \in DOMAIN old \cup {admin_id} |->
                        IF a = admin_id
                        THEN [posts |-> 0, batches |-> 0, last_action |-> -1]
                        ELSE old[a]]
        new == [base EXCEPT ![admin_id][action] = @ + 1,
                            ![admin_id].last_action = now]
    IN  _save([s1 EXCEPT !.config.admin_stats = new])

remove_scheduled_job_found(st, job_id) ==
    job_id \in DOMAIN get_config(st).config.scheduled_posts

\* remove_scheduled_job with "config['scheduled_posts'].clear()" in place of the del
remove_scheduled_job_clear(st, job_id) ==
    LET s1 == get_config(st)
    IN  IF job_id \in DOMAIN s1.config.scheduled_posts
        THEN _save([s1 EXCEPT !.config.scheduled_posts = NoJobs])
        ELSE s1

remove_scheduled_job(st, job_id) ==
    LET s1 == get_config(st)
    IN  IF job_id \in DOMAIN s1.config.scheduled_posts
        THEN _save([s1 EXCEPT !.config.scheduled_posts = Without(@, {job_id})])
        ELSE s1

\* the job ids cleanup_expired_jobs collects in expired_jobs
expired_jobs(jobs) ==
    {j \in DOMAIN jobs :
        IF Compares(jobs[j].schedule_time)
        THEN now > fromisoformat(jobs[j].schedule_time) + GraceSeconds
        ELSE TRUE}

cleanup_expired_jobs(st) ==
    LET s1 == get_config(st)
        exp == expired_jobs(s1.config.scheduled_posts)
    IN  IF exp # {}
        THEN _save([s1 EXCEPT !.config.scheduled_posts = Without(@, exp)])
        ELSE s1

\* ------------------------------------------------------- dispatcher
\* A reference to a config dict: live while that dict is still the one bound
\* to ConfigManager._config, else the counters the dict held when a reload
\* replaced it (nothing writes to a replaced dict).
LiveRef == [live |-> TRUE, posts |-> 0, batches |-> 0]

FrozenRef(snap) == [live |-> FALSE, posts |-> snap.posts, batches |-> snap.batches]

\* what a reference c, held since before this step, is after the store went
\* from `before` to `after` in one call
Rebind(c, before, after) ==
    IF c.live /\ ~before.snap.taken /\ after.snap.taken
    THEN FrozenRef(after.snap)
    ELSE c

\* config.get("stats", {}).get(key, 0) through the reference c
RefStat(c, st, key) == IF c.live THEN st.config.stats[key] ELSE c[key]

\* The locals of execute_post / execute_scheduled_job.  ci, mi: the position
\* of the two for loops (1-based); attempt: the loop variable of
\* range(max_retries); channel_results: the per-channel counts of execute_post,
\* by position of the channel (execute_scheduled_job keeps none; the model
\* counts for both); tried, pairs_entered, pairs_attempted: history;
\* unpaused: history, a send succeeded and no asyncio.sleep came after it.
NoResults == [success |-> 0, failed |-> 0]

\* A text or caption handed to a send: the content of the message and the
\* footers appended to it (a footer is its number of characters, 0 is "").
NoText == [body |-> 0, footers |-> <<>>]

\* a content that is kept from one attempt to the next, so that every retry
\* appends the footer again
PrepareContentAccumulating(msg_data, footer, attempt) ==
    [msg_data |-> msg_data,
     text |-> [body |-> msg_data.content,
               footers |-> IF footer # 0 THEN [i \in 1..(attempt + 1) |-> footer]
                                         ELSE <<>>]]

\* "# Prepare message content", inside the retry loop: content (or caption) is
\* read from msg_data anew in every attempt, 'if footer: content +=
\* f"\n\n{footer}"' builds a new string, and msg_data is only read
PrepareContent(msg_data, footer, attempt) ==
    [msg_data |-> msg_data,
     text |-> [body |-> msg_data.content,
               footers |-> IF footer # 0 THEN <<footer>> ELSE <<>>]]

\* the dispatch with the content of its current attempt prepared
Prepared(d) ==
    LET r == PrepareContent(d.batch[d.mi], d.footer, d.attempt)
    IN  [d EXCEPT !.sent = r.text, !.batch[d.mi] = r.msg_data]

IdleDispatch ==
    [job_id |-> 0, channels |-> <<>>, batch |-> <<>>, admin_id |-> 0,
     ci |-> 0, mi |-> 0, attempt |-> 0, success |-> FALSE,
     successful_posts |-> 0, failed_posts |-> 0,
     max_retries |-> 0, delay |-> 0, cfg |-> LiveRef,
     posts0 |-> 0, batches0 |-> 0,
     tried |-> 0, pairs_entered |-> 0, pairs_attempted |-> 0,
     channel_results |-> <<>>, unpaused |-> FALSE,
     footer |-> 0, sent |-> NoText]

NewDispatch(st, job_id, channels, batch, admin_id) ==
    [IdleDispatch EXCEPT
        !.job_id = job_id, !.channels = channels, !.batch = batch,
        !.admin_id = admin_id,
        !.max_retries = st.config.settings.max_retries,
        !.delay = st.config.settings.default_delay,
        !.footer = st.config.settings.footer,
        !.posts0 = st.config.stats.posts,
        !.batches0 = st.config.stats.batches]

\* the body of "for msg_data in batch" up to the first await of the pair:
\* success = False, then range(max_retries) yields attempt 0 and the send is
\* called; with max_retries = 0 the loop body never runs.  The first message
\* of a channel comes after "channel_results[channel_id] = {...}".
EnterPair(d, ci, mi) ==
    Prepared([d EXCEPT !.ci = ci, !.mi = mi, !.attempt = 0, !.success = FALSE,
                       !.tried = 1,
                       !.pairs_entered = @ + 1, !.pairs_attempted = @ + 1,
                       !.channel_results = IF mi = 1 THEN Append(@, NoResults) ELSE @])

\* both for loops run with no send at all (max_retries < 1)
SkipAllPairs(d) ==
    [d EXCEPT !.ci = Len(d.channels), !.mi = Len(d.batch),
              !.pairs_entered = Len(d.channels) * Len(d.batch),
              !.channel_results = [c \in 1..Len(d.channels) |-> NoResults]]

\* from the call of the dispatch to its first await or to the end of its loops
BeginDispatch(d) ==
    IF d.max_retries >= 1
    THEN [phase |-> "send", d |-> EnterPair(d, 1, 1)]
    ELSE [phase |-> "finish", d |-> SkipAllPairs(d)]

\* the next iteration of "for msg_data in batch" / "for channel_id in channels"
AdvancePair(d) ==
    IF d.mi < Len(d.batch)
    THEN [phase |-> "send", d |-> EnterPair(d, d.ci, d.mi + 1)]
    ELSE IF d.ci < Len(d.channels)
         THEN [phase |-> "send", d |-> EnterPair(d, d.ci + 1, 1)]
         ELSE [phase |-> "finish", d |-> d]

\* the send returned: success = True, successful_posts += 1, break; then, in
\* execute_scheduled_job, "if success and delay > 0: await asyncio.sleep(delay)".
\* In execute_post that test stands inside the retry loop, after the break,
\* and is never reached with success set (sleeps is FALSE there).
OnSendOk(d, sleeps) ==
    LET d1 == [d EXCEPT !.success = TRUE, !.successful_posts = @ + 1,
                        !.channel_results[d.ci].success = @ + 1,
                        !.unpaused = TRUE]
    IN  IF sleeps /\ d1.delay > 0
        THEN [phase |-> "sleep", d |-> d1]
        ELSE AdvancePair(d1)

\* a retry loop that runs once too often: range(max_retries + 1)
OnSendFailOffByOne(d) ==
    LET d1 == IF d.attempt = d.max_retries - 1
              THEN [d EXCEPT !.failed_posts = @ + 1,
                             !.channel_results[d.ci].failed = @ + 1]
              ELSE d
    IN  IF d.attempt + 1 <= d.max_retries
        THEN [phase |-> "send",
              d |-> [d1 EXCEPT !.attempt = @ + 1, !.tried = @ + 1]]
        ELSE AdvancePair(d1)

\* a dispatch that gives up at the first pair whose retries are exhausted
OnSendFailAbort(d) ==
    LET d1 == IF d.attempt = d.max_retries - 1
              THEN [d EXCEPT !.failed_posts = @ + 1,
                             !.channel_results[d.ci].failed = @ + 1]
              ELSE d
    IN  IF d.attempt + 1 < d.max_retries
        THEN [phase |-> "send",
              d |-> [d1 EXCEPT !.attempt = @ + 1, !.tried = @ + 1]]
        ELSE [phase |-> "finish", d |-> d1]

\* the send raised: on the last attempt failed_posts += 1 and the loop ends,
\* else range(max_retries) yields the next attempt and the send is called again
OnSendFail(d) ==
    LET d1 == IF d.attempt = d.max_retries - 1
              THEN [d EXCEPT !.failed_posts = @ + 1,
                             !.channel_results[d.ci].failed = @ + 1]
              ELSE d
    IN  IF d.attempt + 1 < d.max_retries
        THEN [phase |-> "send",
              d |-> Prepared([d1 EXCEPT !.attempt = @ + 1, !.tried = @ + 1])]
        ELSE AdvancePair(d1)

\* a statistics update that stores the count of this dispatch in place of the
\* running total
UpdateStatisticsOverwrite(st, d, last_channels) ==
    LET v1 == d.successful_posts
        s1 == update_stats(st, "posts", v1)
        c1 == Rebind(d.cfg, st, s1)
        v2 == RefStat(c1, s1, "batches") + 1
        s2 == update_stats(s1, "batches", v2)
        s3 == update_stats(s2, "last_post", now)
        s4 == update_stats(s3, "last_post_channels", last_channels)
        s5 == update_admin_stats(s4, d.admin_id, "posts")
    IN  update_admin_stats(s5, d.admin_id, "batches")

\* "# Update statistics": the six calls after the loops, through the reference
\* the dispatch took before its sends.  last_channels: the value stored in
\* last_post_channels.
UpdateStatistics(st, d, last_channels) ==
    LET v1 == RefStat(d.cfg, st, "posts") + d.successful_posts
        s1 == update_stats(st, "posts", v1)
        c1 == Rebind(d.cfg, st, s1)
        v2 == RefStat(c1, s1, "batches") + 1
        s2 == update_stats(s1, "batches", v2)
        s3 == update_stats(s2, "last_post", now)
        s4 == update_stats(s3, "last_post_channels", last_channels)
        s5 == update_admin_stats(s4, d.admin_id, "posts")
    IN  update_admin_stats(s5, d.admin_id, "batches")

\* history: the dispatch that just completed, with the counters before and after
LogOf(kind, st, after, d, last_channels) ==
    [kind |-> kind, job_id |-> d.job_id,
     successful_posts |-> d.successful_posts, failed_posts |-> d.failed_posts,
     pairs |-> Len(d.channels) * Len(d.batch),
     pairs_attempted |-> d.pairs_attempted, max_retries |-> d.max_retries,
     batch_len |-> Len(d.batch), channel_results |-> d.channel_results,
     posts0 |-> d.posts0, batches0 |-> d.batches0,
     posts_before |-> st.config.stats.posts,
     posts_after |-> after.config.stats.posts,
     batches_after |-> after.config.stats.batches,
     channels |-> last_channels,
     last_post_channels |-> after.config.stats.last_post_channels,
     admin_id |-> d.admin_id,
     admin_stats_before |-> st.config.admin_stats,
     admin_stats_after |-> after.config.admin_stats]

NoLog ==
    [kind |-> "none", job_id |-> 0, successful_posts |-> 0, failed_posts |-> 0,
     pairs |-> 0, pairs_attempted |-> 0, max_retries |-> 0, batch_len |-> 0,
     channel_results |-> <<>>,
     posts0 |-> 0, batches0 |-> 0, posts_before |-> 0,
     posts_after |-> 0, batches_after |-> 0, channels |-> <<>>,
     last_post_channels |-> <<>>,
     admin_id |-> 0, admin_stats_before |-> NoAdminStats,
     admin_stats_after |-> NoAdminStats]

\* ------------------------------------------------ scheduled jobs runner
IdleTick ==
    [pc |-> "idle", current_time |-> 0, todo |-> <<>>,
     due0 |-> {}, bad0 |-> {}, served |-> {}, d |-> IdleDispatch]

\* What one step threads through its calls: the store and the history counters.
\* done_log shows a dispatch in the state right after the step that completed it.
World ==
    [st |-> Store, ec |-> exec_count, dl |-> NoLog, tot |-> total_sent,
     af |-> all_failed]

RECURSIVE SortedSeq(_)
SortedSeq(S) ==
    IF S = {} THEN <<>>
    ELSE LET m == CHOOSE x \in S : \A y \in S : x <= y
         IN  <<m>> \o SortedSeq(S \ {m})

\* The first loop of run_scheduled_jobs, "for job_id, job_data in
\* scheduled_jobs.items()", over the keys still to come.  The dict iterator
\* raises RuntimeError at its next step once the dict changed size, also when
\* the deleted key was the last one; changed says the iterated dict did.
RECURSIVE first_loop(_, _, _, _, _)
first_loop(keys, jobs, st, acc, changed) ==
    IF changed
    THEN [raised |-> TRUE, st |-> st, jobs_to_execute |-> acc]
    ELSE IF keys = <<>>
    THEN [raised |-> FALSE, st |-> st, jobs_to_execute |-> acc]
    ELSE LET job_id == Head(keys)
             job_data == jobs[job_id]
         IN  IF Compares(job_data.schedule_time)
             THEN IF now >= fromisoformat(job_data.schedule_time)
                  THEN first_loop(Tail(keys), jobs, st,
                                  Append(acc, [id |-> job_id, data |-> job_data]),
                                  FALSE)
                  ELSE first_loop(Tail(keys), jobs, st, acc, FALSE)
             ELSE LET s1 == remove_scheduled_job(st, job_id)
                  \* the delete hits the iterated dict unless this very call
                  \* reloaded the config into a new one
                  IN  first_loop(Tail(keys), jobs, s1, acc,
                                 ~(~st.snap.taken /\ s1.snap.taken))

RECURSIVE RunJobs(_, _)
RECURSIVE FinishJob(_, _)
RECURSIVE AfterJob(_, _)

\* "for job_id, job_data in jobs_to_execute", from the top of an iteration to
\* the next await (or to the end of the tick, through cleanup_expired_jobs)
RunJobs(w, rec) ==
    IF rec.todo = <<>>
    THEN [w |-> [w EXCEPT !.st = cleanup_expired_jobs(w.st)],
          rec |-> [rec EXCEPT !.pc = "idle"]]
    ELSE LET job == Head(rec.todo)
             w1 == [w EXCEPT !.ec[job.id] = @ + 1]
             rec1 == [rec EXCEPT !.served = @ \cup {job.id}]
         IN  IF job.data.batch = <<>> \/ job.data.channels = <<>>
             THEN AfterJob(w1, rec1)
             ELSE LET s1 == get_config(w1.st)
                      b == BeginDispatch(NewDispatch(s1, job.id, job.data.channels,
                                                     job.data.batch, job.data.admin_id))
                      w2 == [w1 EXCEPT !.st = s1]
                  IN  IF b.phase = "send"
                      THEN [w |-> w2, rec |-> [rec1 EXCEPT !.pc = "send", !.d = b.d]]
                      ELSE FinishJob(w2, [rec1 EXCEPT !.d = b.d])

\* execute_scheduled_job after its loops: the statistics, then the
\* notification to the admin (an await) when notifications are enabled
FinishJob(w, rec) ==
    LET s2 == UpdateStatistics(w.st, rec.d, rec.d.channels)
        w2 == [w EXCEPT !.st = s2,
                        !.dl = LogOf("job", w.st, s2, rec.d, rec.d.channels),
                        !.tot = @ + rec.d.successful_posts,
                        !.af = IF rec.d.max_retries >= 1 /\ rec.d.successful_posts = 0
                               THEN @ \cup {rec.d.job_id}
                               ELSE @]
    IN  IF s2.config.settings.notifications
        THEN [w |-> w2, rec |-> [rec EXCEPT !.pc = "notify", !.d = IdleDispatch]]
        ELSE AfterJob(w2, rec)

\* execute_scheduled_job returned: remove_scheduled_job(job_id), next iteration
AfterJob(w, rec) ==
    RunJobs([w EXCEPT !.st = remove_scheduled_job(w.st, Head(rec.todo).id)],
            [rec EXCEPT !.todo = Tail(@), !.d = IdleDispatch])

\* run_scheduled_jobs from its call to its first await.  A RuntimeError of
\* the first loop lands in the outer "except Exception", which only logs.
run_scheduled_jobs(w) ==
    LET s1 == get_scheduled_jobs(w.st)
        jobs == s1.config.scheduled_posts
        scan == first_loop(SortedSeq(DOMAIN jobs), jobs, s1, <<>>, FALSE)
        rec0 == [IdleTick EXCEPT
                    !.current_time = now,
                    !.due0 = {j \in DOMAIN jobs :
                                Parses(jobs[j].schedule_time)
                                /\ now >= fromisoformat(jobs[j].schedule_time)},
                    !.bad0 = {j \in DOMAIN jobs : ~Parses(jobs[j].schedule_time)}]
    IN  IF scan.raised
        THEN [w |-> [w EXCEPT !.st = scan.st], rec |-> rec0]
        ELSE RunJobs([w EXCEPT !.st = scan.st],
                     [rec0 EXCEPT !.todo = scan.jobs_to_execute])

\* ------------------------------------------------------------ state
Message(k) == [type |-> "text", content |-> k]

\* the job records tried: an odd id posts two messages to channel 1, an even
\* id one message to channel 2
JobData(j, schedule_time) ==
    [schedule_time |-> schedule_time,
     batch |-> IF j % 2 = 1 THEN <<Message(1), Message(2)>> ELSE <<Message(1)>>,
     channels |-> IF j % 2 = 1 THEN <<1>> ELSE <<2>>,
     admin_id |-> OwnerId]

\* the stored times tried: unparseable, more than the grace period ago, due
\* now, due after one short clock step
ScheduleTimes ==
    {BadTime, IsoTime(0 - GraceSeconds - 1), IsoTime(0), IsoTime(FreshSeconds + 1)}

NoTick == [ran |-> FALSE, at |-> 0]

\* user_data["schedule_time"]: absent, or the datetime stored by
\* schedule_batch_confirm
NoTime == [set |-> FALSE, at |-> 0]

\* no such call yet
NoCall == [fn |-> "none"]

\* handlers/post.py execute_post when it is not running
NoPosting ==
    [pc |-> "idle", messages |-> <<>>, channels |-> <<>>, ci |-> 0, mi |-> 0,
     success_count |-> 0, attempted |-> {}, failed |-> {}]

\* The modules that main.py does not import (handlers/*.py, handlers*.py,
\* configmanager.py) before their first update: context.user_data of the
\* operator without keys (a key that is absent reads as false, empty or 0),
\* context.bot_data without keys (-1), no config/fixed_channels.json, an
\* empty job queue.
Fresh ==
    [user_data |-> [batch_messages |-> <<>>,
                    awaiting_channel_id |-> FALSE,
                    awaiting_delay_input |-> FALSE,
                    awaiting_retry_input |-> FALSE,
                    awaiting_scheduled_message |-> FALSE,
                    awaiting_scheduled_time |-> FALSE,
                    scheduled_message_text |-> 0],
     bot_data |-> [post_delay |-> -1, retry_attempts |-> -1],
     fixed_channels |-> <<>>,
     job_queue |-> <<>>,
     posting |-> NoPosting]

\* After construction: ConfigManager() has loaded the file, whose
\* scheduled_posts hold any job records (main.py itself never calls
\* add_scheduled_job, the records come with the file) and whose admins are
\* the owner and the operator.  delays and notification_values are the
\* settings tried.  file_state is left to the specification.
InitWith(delays, notification_values, footers) ==
    /\ now = 0
    /\ last_loaded = 0
    /\ \E times \in [JobIds -> ScheduleTimes] :
       \E max_retries \in 0..MaxRetriesBound :
       \E default_delay \in delays :
       \E notifications \in notification_values :
       \E footer \in footers :
          config = [admins |-> <<OwnerId, OperatorId>>,
                    channels |-> FIXED_CHANNELS,
                    scheduled_posts |-> [j \in JobIds |-> JobData(j, times[j])],
                    stats |-> ZeroStats,
                    admin_stats |-> NoAdminStats,
                    settings |-> [default_delay |-> default_delay,
                                  max_retries |-> max_retries,
                                  notifications |-> notifications,
                                  footer |-> footer]]
    /\ file = config
    /\ ticks = [t \in TickIds |-> IdleTick]
    /\ post = [pc |-> "idle", d |-> IdleDispatch, shared |-> FALSE, batch0 |-> <<>>]
    /\ user_data = [batch |-> <<Message(3)>>, selected_channels |-> {1, 2},
                    schedule_time |-> NoTime, setting_type |-> ""]
    /\ advances = 0
    /\ exec_count = [j \in JobIds |-> 0]
    /\ cancelled = {}
    /\ sent_after_cancel = {}
    /\ lost = {}
    /\ missed = {}
    /\ bad_left = {}
    /\ all_failed = {}
    /\ last_tick = NoTick
    /\ done_log = NoLog
    /\ total_sent = 0
    /\ process = "ok"
    /\ conversation = "END"
    /\ uploads = <<>>
    /\ unauthorized = FALSE
    /\ missed_reload = FALSE
    /\ call = NoCall
    /\ standalone = Fresh

\* the bot right after its first start: the default config, written to the
\* file, and an operator who has sent nothing yet
AdminInit ==
    /\ now = 0
    /\ last_loaded = 0
    /\ config = DefaultConfig
    /\ file = config
    /\ file_state = "json"
    /\ ticks = [t \in TickIds |-> IdleTick]
    /\ post = [pc |-> "idle", d |-> IdleDispatch, shared |-> FALSE, batch0 |-> <<>>]
    /\ user_data = [batch |-> <<>>, selected_channels |-> {},
                    schedule_time |-> NoTime, setting_type |-> ""]
    /\ advances = 0
    /\ exec_count = [j \in JobIds |-> 0]
    /\ cancelled = {}
    /\ sent_after_cancel = {}
    /\ lost = {}
    /\ missed = {}
    /\ bad_left = {}
    /\ all_failed = {}
    /\ last_tick = NoTick
    /\ done_log = NoLog
    /\ total_sent = 0
    /\ process = "ok"
    /\ conversation = "END"
    /\ uploads = <<>>
    /\ unauthorized = FALSE
    /\ missed_reload = FALSE
    /\ call = NoCall
    /\ standalone = Fresh

\* the stored times tried for the sweep: those of ScheduleTimes, the last
\* instant of the grace period, and a time an hour ahead written with a UTC
\* offset
StoredTimes ==
    ScheduleTimes \cup {IsoTime(0 - GraceSeconds), AwareTime(GraceSeconds)}

\* After construction, with job records of any of the stored times.
CleanupInit ==
    /\ now = 0
    /\ last_loaded = 0
    /\ \E times \in [JobIds -> StoredTimes] :
          config = [DefaultConfig EXCEPT
                       !.admins = <<OwnerId, OperatorId>>,
                       !.scheduled_posts = [j \in JobIds |-> JobData(j, times[j])]]
    /\ file = config
    /\ file_state = "json"
    /\ ticks = [t \in TickIds |-> IdleTick]
    /\ post = [pc |-> "idle", d |-> IdleDispatch, shared |-> FALSE, batch0 |-> <<>>]
    /\ user_data = [batch |-> <<>>, selected_channels |-> {},
                    schedule_time |-> NoTime, setting_type |-> ""]
    /\ advances = 0
    /\ exec_count = [j \in JobIds |-> 0]
    /\ cancelled = {}
    /\ sent_after_cancel = {}
    /\ lost = {}
    /\ missed = {}
    /\ bad_left = {}
    /\ all_failed = {}
    /\ last_tick = NoTick
    /\ done_log = NoLog
    /\ total_sent = 0
    /\ process = "ok"
    /\ conversation = "END"
    /\ uploads = <<>>
    /\ unauthorized = FALSE
    /\ missed_reload = FALSE
    /\ call = NoCall
    /\ standalone = Fresh

\* an operator who is an admin, with an empty batch or a batch one short of
\* the cap, about to upload a text file
FileInit ==
    /\ now = 0
    /\ last_loaded = 0
    /\ config = [DefaultConfig EXCEPT !.admins = <<OwnerId, OperatorId>>]
    /\ file = config
    /\ file_state = "json"
    /\ ticks = [t \in TickIds |-> IdleTick]
    /\ post = [pc |-> "idle", d |-> IdleDispatch, shared |-> FALSE, batch0 |-> <<>>]
    /\ \E k \in {0, MAX_BATCH_MESSAGES - 1} :
          user_data = [batch |-> [i \in 1..k |-> [type |-> "text", content |-> <<"a">>]],
                       selected_channels |-> {},
                       schedule_time |-> NoTime, setting_type |-> ""]
    /\ advances = 0
    /\ exec_count = [j \in JobIds |-> 0]
    /\ cancelled = {}
    /\ sent_after_cancel = {}
    /\ lost = {}
    /\ missed = {}
    /\ bad_left = {}
    /\ all_failed = {}
    /\ last_tick = NoTick
    /\ done_log = NoLog
    /\ total_sent = 0
    /\ process = "ok"
    /\ conversation = "END"
    /\ uploads = <<>>
    /\ unauthorized = FALSE
    /\ missed_reload = FALSE
    /\ call = NoCall
    /\ standalone = Fresh

\* the default settings of _initialize_default_config: a delay > 0, notifications on
Init == InitWith({1}, {TRUE}, {0}) /\ file_state = "json"

\* every combination of a delay of zero or more and notifications on or off
SeqInit == InitWith({0, 1}, BOOLEAN, {0}) /\ file_state = "json"

\* with no footer or a footer of five characters
FooterInit == InitWith({1}, {TRUE}, {0, 5}) /\ file_state = "json"

\* ---------------------------------------------------------- actions
InUse(pc) == pc \in {"progress", "send", "sleep"}

\* a reload in this step replaced the dict another invocation still refers to
Freeze(task, st) ==
    IF st.snap.taken /\ InUse(task.pc) /\ task.d.cfg.live
    THEN [task EXCEPT !.d.cfg = FrozenRef(st.snap)]
    ELSE task

\* history: valid jobs that leave the store in this step, never executed, not cancelled
Dropped(w, cancelled_now) ==
    {j \in DOMAIN config.scheduled_posts \ DOMAIN w.st.config.scheduled_posts :
        /\ Parses(config.scheduled_posts[j].schedule_time)
        /\ w.ec[j] = 0
        /\ j \notin cancelled_now}

\* The event loop runs a step only while the process is not blocked.
CommitStore(w) ==
    /\ process # "hung"
    /\ process' = w.st.outcome
    /\ file_state' = w.st.file_state
    /\ config' = w.st.config
    /\ file' = w.st.file
    /\ last_loaded' = w.st.last_loaded
    /\ exec_count' = w.ec
    /\ done_log' = w.dl
    /\ total_sent' = w.tot
    /\ all_failed' = w.af

\* a step of tick t that leaves it as rec
CommitTick(t, w, rec) ==
    /\ CommitStore(w)
    /\ ticks' = [u \in TickIds |->
                    IF u = t
                    THEN IF rec.pc = "idle" THEN IdleTick ELSE rec
                    ELSE Freeze(ticks[u], w.st)]
    /\ post' = Freeze(post, w.st)
    /\ sent_after_cancel' =
          IF rec.pc = "send" /\ rec.d.job_id \in cancelled
          THEN sent_after_cancel \cup {rec.d.job_id}
          ELSE sent_after_cancel
    /\ lost' = lost \cup Dropped(w, cancelled)
    /\ IF rec.pc = "idle"
       THEN /\ missed' = missed \cup (rec.due0 \ rec.served)
                                \cup (rec.due0 \cap DOMAIN w.st.config.scheduled_posts)
            /\ bad_left' = bad_left \cup (rec.bad0 \cap DOMAIN w.st.config.scheduled_posts)
                                    \cup (rec.bad0 \cap rec.served)
            /\ last_tick' = [ran |-> TRUE, at |-> rec.current_time]
       ELSE UNCHANGED <<missed, bad_left, last_tick>>
    /\ UNCHANGED <<now, user_data, advances, cancelled,
                   conversation, uploads, unauthorized, missed_reload, call, standalone>>

\* a step of a handler of the operator's updates
CommitUser(w, new_post, new_user_data, cancelled_now, new_conversation, new_uploads) ==
    /\ CommitStore(w)
    /\ ticks' = [u \in TickIds |-> Freeze(ticks[u], w.st)]
    /\ post' = new_post
    /\ user_data' = new_user_data
    /\ cancelled' = cancelled_now
    /\ conversation' = new_conversation
    /\ uploads' = new_uploads
    /\ lost' = lost \cup Dropped(w, cancelled_now)
    /\ last_tick' = NoTick
    /\ UNCHANGED <<now, advances, sent_after_cancel, missed, bad_left>>

\* a step of another handler
CommitOther(w, new_post, new_user_data, cancelled_now) ==
    /\ CommitUser(w, new_post, new_user_data, cancelled_now, conversation, uploads)
    /\ UNCHANGED <<unauthorized, missed_reload, call, standalone>>

\* the job queue calls run_scheduled_jobs (run_repeating, interval=60)
TickStart(t) ==
    /\ ticks[t].pc = "idle"
    /\ \A u \in TickIds : u < t => ticks[u].pc # "idle"
    /\ LET r == run_scheduled_jobs(World)
       IN  CommitTick(t, r.w, r.rec)

\* a send of tick t returns (ok) or raises
TickSendResult(t, ok) ==
    /\ ticks[t].pc = "send"
    /\ LET rec == ticks[t]
           b == IF ok THEN OnSendOk(rec.d, TRUE) ELSE OnSendFail(rec.d)
           r == IF b.phase = "finish"
                THEN FinishJob(World, [rec EXCEPT !.d = b.d])
                ELSE [w |-> World, rec |-> [rec EXCEPT !.pc = b.phase, !.d = b.d]]
       IN  CommitTick(t, r.w, r.rec)

\* asyncio.sleep(delay) of tick t is over
TickSleepDone(t) ==
    /\ ticks[t].pc = "sleep"
    /\ LET rec == ticks[t]
           b == AdvancePair([rec.d EXCEPT !.unpaused = FALSE])
           r == IF b.phase = "finish"
                THEN FinishJob(World, [rec EXCEPT !.d = b.d])
                ELSE [w |-> World, rec |-> [rec EXCEPT !.pc = b.phase, !.d = b.d]]
       IN  CommitTick(t, r.w, r.rec)

\* the notification send of tick t returned or raised (either way it is done)
TickNotifyDone(t) ==
    /\ ticks[t].pc = "notify"
    /\ LET r == AfterJob(World, ticks[t])
       IN  CommitTick(t, r.w, r.rec)

IdlePost == [pc |-> "idle", d |-> IdleDispatch, shared |-> FALSE, batch0 |-> <<>>]

\* execute_post at its next await.  "batch = context.user_data.get(...)" is a
\* reference to the operator's list, not a copy: shared says that the list it
\* iterates is still the one user_data holds; batch0 (history) is that list
\* as it was when execute_post began.
Posting(pc, d) == [post EXCEPT !.pc = pc, !.d = d]

\* the operator's list became new_batch by an append: the loop of a post that
\* iterates the same list sees the new items
SharePost(new_batch) ==
    IF post.pc # "idle" /\ post.shared
    THEN [post EXCEPT !.d.batch = new_batch]
    ELSE post

\* user_data["batch"] was bound to a new list: the handlers suspended in a
\* download keep the old one
Detached == [k \in DOMAIN uploads |-> [uploads[k] EXCEPT !.live = FALSE]]

\* execute_post after its loops: the statistics, then the batch and the
\* selection are reset (the result message that follows changes nothing)
FinishPost(w, d) ==
    LET last_channels == SortedSeq(user_data.selected_channels)
        s2 == UpdateStatistics(w.st, d, last_channels)
    IN  [w EXCEPT !.st = s2,
                  !.dl = LogOf("post", w.st, s2, d, last_channels),
                  !.tot = @ + d.successful_posts]

ClearedUserData == [user_data EXCEPT !.batch = <<>>, !.selected_channels = {}]

\* button_handler "confirm_post": execute_post up to the progress message
PostStart ==
    /\ post.pc = "idle"
    /\ IsAdmin(get_admins(Store), OperatorId)
    /\ user_data.batch # <<>>
    /\ user_data.selected_channels # {}
    /\ LET s1 == get_config(Store)
           d == NewDispatch(s1, 0, SortedSeq(user_data.selected_channels),
                            user_data.batch, OperatorId)
       IN  /\ CommitUser([World EXCEPT !.st = s1],
                         [pc |-> "progress", d |-> d, shared |-> TRUE,
                          batch0 |-> user_data.batch],
                         user_data, cancelled, conversation,
                         [k \in DOMAIN uploads |->
                             [uploads[k] EXCEPT !.post = uploads[k].live]])
           /\ UNCHANGED <<unauthorized, missed_reload, call, standalone>>

\* the progress message is out: the loops start
PostProgressDone ==
    /\ post.pc = "progress"
    /\ LET b == BeginDispatch(post.d)
       IN  /\ IF b.phase = "finish"
              THEN CommitUser(FinishPost(World, b.d), IdlePost, ClearedUserData,
                              cancelled, conversation,
                              [k \in DOMAIN uploads |->
                                  [uploads[k] EXCEPT !.live = FALSE, !.post = FALSE]])
              ELSE CommitUser(World, Posting("send", b.d), user_data, cancelled,
                              conversation, uploads)
           /\ UNCHANGED <<unauthorized, missed_reload, call, standalone>>

\* a send of execute_post returns (ok) or raises
PostSendResult(ok) ==
    /\ post.pc = "send"
    /\ LET b == IF ok THEN OnSendOk(post.d, FALSE) ELSE OnSendFail(post.d)
       IN  /\ IF b.phase = "finish"
              THEN CommitUser(FinishPost(World, b.d), IdlePost, ClearedUserData,
                              cancelled, conversation,
                              [k \in DOMAIN uploads |->
                                  [uploads[k] EXCEPT !.live = FALSE, !.post = FALSE]])
              ELSE CommitUser(World, Posting("send", b.d), user_data, cancelled,
                              conversation, uploads)
           /\ UNCHANGED <<unauthorized, missed_reload, call, standalone>>

\* /status from the owner: get_admins, get_config, cleanup_expired_jobs
status ==
    /\ IsAdmin(get_admins(Store), OwnerId)
    /\ LET s1 == get_config(get_admins(Store))
       IN  CommitOther([World EXCEPT !.st = cleanup_expired_jobs(s1)],
                       post, user_data, cancelled)

\* the delete button of a schedule, pressed by the owner: button_handler's
\* admin check, remove_scheduled_job, then the answer
delete_schedule(job_id) ==
    /\ IsAdmin(get_admins(Store), OwnerId)
    /\ LET found == remove_scheduled_job_found(Store, job_id)
       IN  CommitOther([World EXCEPT !.st = remove_scheduled_job(Store, job_id)],
                       post, user_data,
                       IF found THEN cancelled \cup {job_id} ELSE cancelled)

\* a handler that only reads the config (schedule_management_menu): the
\* reload of a stale cache is all it changes
schedule_management_menu ==
    /\ Stale(Store)
    /\ CommitOther([World EXCEPT !.st = get_scheduled_jobs(Store)],
                   post, user_data, cancelled)

\* button "batch_schedule_menu" (entry point of the schedule conversation):
\* button_handler's admin check, then schedule_batch_menu prompts for the time
\* when the batch is not empty.  The conversation is taken to wait in
\* SCHEDULE_BATCH, the state main() maps to schedule_batch_confirm.
schedule_batch_menu ==
    /\ conversation = "END"
    /\ post.pc = "idle"
    /\ LET s1 == get_admins(Store)
       IN  /\ IsAdmin(s1, OperatorId)
           /\ user_data.batch # <<>>
           /\ CommitUser([World EXCEPT !.st = s1], post, user_data, cancelled,
                         "SCHEDULE_BATCH", uploads)
           /\ UNCHANGED <<unauthorized, missed_reload, call, standalone>>

\* schedule_batch_confirm on the text time_input, which validate_schedule_time
\* parsed or rejected: an invalid or a past time asks again; a future time is
\* stored in user_data with an empty selection and the conversation ends.
\* config_manager.add_scheduled_job is called nowhere.
schedule_batch_confirm(time_input) ==
    /\ conversation = "SCHEDULE_BATCH"
    /\ post.pc = "idle"
    /\ IF ~Parses(time_input) \/ fromisoformat(time_input) <= now
       THEN CommitUser(World, post, user_data, cancelled, "SCHEDULE_BATCH", uploads)
       ELSE CommitUser([World EXCEPT !.st = get_channels(Store)], post,
                       [user_data EXCEPT
                           !.schedule_time = [set |-> TRUE,
                                              at |-> fromisoformat(time_input)],
                           !.selected_channels = {}],
                       cancelled, "END", uploads)
    /\ UNCHANGED <<unauthorized, missed_reload, call, standalone>>

\* toggle_channel_selection on the set: "if channel_id in selected_channels:
\* remove, else: add"
toggle_add(selected_channels, channel_id) == selected_channels \cup {channel_id}

toggle(selected_channels, channel_id) ==
    IF channel_id \in selected_channels
    THEN selected_channels \ {channel_id}
    ELSE selected_channels \cup {channel_id}

\* set(channels.keys()) of the dict get_channels returned
Known(st) == DOMAIN st.config.channels

\* button "toggle_channel_<id>": button_handler's admin check, then the id is
\* added to or removed from the selection, then the channels are read for
\* the keyboard
toggle_channel_selection(channel_id) ==
    /\ post.pc = "idle"
    /\ LET s1 == get_admins(Store)
           s2 == get_channels(s1)
           selected == toggle(user_data.selected_channels, channel_id)
       IN  /\ IsAdmin(s1, OperatorId)
           /\ CommitUser([World EXCEPT !.st = s2], post,
                         [user_data EXCEPT !.selected_channels = selected],
                         cancelled, conversation, uploads)
           /\ UNCHANGED standalone
           /\ call' = [fn |-> "toggle_channel_selection", arg |-> channel_id,
                       before |-> user_data.selected_channels, after |-> selected,
                       known |-> Known(s2)]
           /\ UNCHANGED <<unauthorized, missed_reload>>

\* button "select_all_channels": the channels are read, then their keys become
\* the selection
select_all_channels ==
    /\ post.pc = "idle"
    /\ LET s1 == get_admins(Store)
           s2 == get_channels(s1)
           selected == IF s2.outcome = "ok" THEN Known(s2)
                                           ELSE user_data.selected_channels
       IN  /\ IsAdmin(s1, OperatorId)
           /\ CommitUser([World EXCEPT !.st = s2], post,
                         [user_data EXCEPT !.selected_channels = selected],
                         cancelled, conversation, uploads)
           /\ UNCHANGED standalone
           /\ call' = [fn |-> "select_all_channels", arg |-> 0,
                       before |-> user_data.selected_channels, after |-> selected,
                       known |-> Known(s2)]
           /\ UNCHANGED <<unauthorized, missed_reload>>

\* button "unselect_all_channels": the selection becomes set(), then the
\* channels are read for the keyboard
unselect_all_channels ==
    /\ post.pc = "idle"
    /\ LET s1 == get_admins(Store)
           s2 == get_channels(s1)
       IN  /\ IsAdmin(s1, OperatorId)
           /\ CommitUser([World EXCEPT !.st = s2], post,
                         [user_data EXCEPT !.selected_channels = {}],
                         cancelled, conversation, uploads)
           /\ UNCHANGED standalone
           /\ call' = [fn |-> "unselect_all_channels", arg |-> 0,
                       before |-> user_data.selected_channels, after |-> {},
                       known |-> Known(s2)]
           /\ UNCHANGED <<unauthorized, missed_reload>>

\* the channel ids add_channel and remove_channel are called with: the two
\* fixed ones and another
ChannelKeys == ChannelIds \cup {3}

\* the channel_info dicts tried
ChannelInfos == {[name |-> 3], [name |-> 4]}

\* a call of config_manager.add_channel
AddChannelCall(channel_id, channel_info) ==
    /\ CommitOther([World EXCEPT !.st = add_channel(Store, channel_id, channel_info)],
                   post, user_data, cancelled)

\* a call of config_manager.remove_channel
RemoveChannelCall(channel_id) ==
    /\ CommitOther([World EXCEPT !.st = remove_channel(Store, channel_id)],
                   post, user_data, cancelled)

\* a call of config_manager.add_admin
AddAdminCall(admin_id) ==
    /\ CommitOther([World EXCEPT !.st = add_admin(Store, admin_id)],
                   post, user_data, cancelled)

\* a call of config_manager.remove_admin
RemoveAdminCall(admin_id) ==
    /\ CommitOther([World EXCEPT !.st = remove_admin(Store, admin_id)],
                   post, user_data, cancelled)

\* A text sent in the admin conversation, after strip(): whether int() accepts
\* it, the number read, and whether that number is 10**10 or more.
UserIdText(uid) == [int |-> TRUE, uid |-> uid, huge |-> FALSE]

UserIdTexts ==
    {UserIdText(uid) : uid \in UserIds \cup {0}}
        \cup {[int |-> TRUE, uid |-> 0, huge |-> TRUE],
              [int |-> FALSE, uid |-> 0, huge |-> FALSE]}

\* validate_user_id: int(user_id) and 0 < uid < 10**10
validate_user_id(user_id) == user_id.int /\ 0 < user_id.uid /\ ~user_id.huge

\* "word in text" for the words handle_admin_input looks for and the texts
\* the program stores or sends as callback data: the pairs where the word is a
\* substring of the text
WordIn(word, text) ==
    <<word, text>> \in {<<"add", "admin_add">>, <<"add", "channel_add">>,
                        <<"remove", "admin_remove">>, <<"remove", "channel_remove">>}

\* button "admin_add" pressed by the operator (entry point of the admin
\* conversation): button_handler's admin check, then add_admin_prompt edits the
\* message and returns ADMIN_MANAGEMENT; user_data is not written
add_admin_prompt ==
    /\ conversation = "END"
    /\ LET s1 == get_admins(Store)
       IN  /\ IsAdmin(s1, OperatorId)
           /\ CommitUser([World EXCEPT !.st = s1], post, user_data, cancelled,
                         "ADMIN_MANAGEMENT", uploads)
           /\ UNCHANGED standalone
           /\ call' = [fn |-> "add_admin_prompt"]
           /\ UNCHANGED <<unauthorized, missed_reload>>

\* button "admin_remove": the admin check, then remove_admin_prompt lists the
\* admins other than the owner and returns ADMIN_MANAGEMENT, or END when
\* there is none
remove_admin_prompt ==
    /\ conversation = "END"
    /\ LET s1 == get_admins(Store)
           s2 == get_config(s1)
           admins == SelectSeq(s2.config.admins, LAMBDA a : a # OwnerId)
       IN  /\ IsAdmin(s1, OperatorId)
           /\ CommitUser([World EXCEPT !.st = s2], post, user_data, cancelled,
                         IF admins = <<>> THEN "END" ELSE "ADMIN_MANAGEMENT",
                         uploads)
           /\ UNCHANGED standalone
           /\ call' = [fn |-> "remove_admin_prompt"]
           /\ UNCHANGED <<unauthorized, missed_reload>>

\* handle_admin_input on a text of the operator while the conversation waits
\* in ADMIN_MANAGEMENT: an invalid id asks again; otherwise the branch is
\* chosen by "add" in setting_type / "remove" in setting_type, and the
\* conversation ends.  entry is the prompt that opened the conversation.
handle_admin_input(user_input) ==
    /\ conversation = "ADMIN_MANAGEMENT"
    /\ LET valid == validate_user_id(user_input)
           setting_type == user_data.setting_type
           s1 == IF ~valid THEN Store
                 ELSE IF WordIn("add", setting_type)
                      THEN add_admin(Store, user_input.uid)
                 ELSE IF WordIn("remove", setting_type)
                      THEN remove_admin(Store, user_input.uid)
                 ELSE Store
       IN  /\ CommitUser([World EXCEPT !.st = s1], post, user_data, cancelled,
                         IF valid THEN "END" ELSE "ADMIN_MANAGEMENT", uploads)
           /\ UNCHANGED standalone
           /\ call' = [fn |-> "handle_admin_input", entry |-> call.fn,
                       arg |-> user_input, valid |-> valid,
                       before |-> config.admins, after |-> s1.config.admins]
           /\ UNCHANGED <<unauthorized, missed_reload>>

\* button "set_delay" / "set_retries" pressed by the operator (entry point of
\* the settings conversation): button_handler's admin check, then
\* setting_input_prompt stores the type, reads the current value and returns
\* POST_SETTINGS
setting_input_prompt(setting_type) ==
    /\ conversation = "END"
    /\ LET s1 == get_admins(Store)
       IN  /\ IsAdmin(s1, OperatorId)
           /\ CommitUser([World EXCEPT !.st = get_config(s1)], post,
                         [user_data EXCEPT !.setting_type = setting_type],
                         cancelled, "POST_SETTINGS", uploads)
           /\ UNCHANGED <<unauthorized, missed_reload, call, standalone>>

\* handle_settings_input without the lower limits of its range tests
SettingInRangeNoFloor(setting_type, user_input) ==
    CASE setting_type = "set_delay" ->
            user_input.float /\ user_input.tenths <= 10 * SecondTenths
      [] setting_type = "set_retries" ->
            user_input.float /\ user_input.integer
            /\ user_input.tenths \div SecondTenths <= 10
      [] OTHER -> user_input.clear \/ user_input.length <= MAX_FOOTER_LENGTH

\* the tests of handle_settings_input: float() and 0 <= delay <= 10, int()
\* and 1 <= retries <= 10, "clear" or len(user_input) <= MAX_FOOTER_LENGTH
SettingInRange(setting_type, user_input) ==
    CASE setting_type = "set_delay" ->
            user_input.float
            /\ 0 <= user_input.tenths /\ user_input.tenths <= 10 * SecondTenths
      [] setting_type = "set_retries" ->
            user_input.float /\ user_input.integer
            /\ 1 <= user_input.tenths \div SecondTenths
            /\ user_input.tenths \div SecondTenths <= 10
      [] OTHER -> user_input.clear \/ user_input.length <= MAX_FOOTER_LENGTH

\* the value handle_settings_input stores (the delay in tenths of a second,
\* the footer as its number of characters)
SettingValue(setting_type, user_input) ==
    CASE setting_type = "set_delay" -> user_input.tenths
      [] setting_type = "set_retries" -> user_input.tenths \div SecondTenths
      [] OTHER -> IF user_input.clear THEN 0 ELSE user_input.length

SettingField(setting_type) ==
    CASE setting_type = "set_delay" -> "default_delay"
      [] setting_type = "set_retries" -> "max_retries"
      [] OTHER -> "footer"

\* handle_settings_input on a text of the operator while the conversation
\* waits in POST_SETTINGS: no admin check; an accepted value is written to
\* the settings and saved and the conversation ends, another one asks again
handle_settings_input(user_input) ==
    /\ conversation = "POST_SETTINGS"
    /\ LET s1 == get_config(Store)
           setting_type == user_data.setting_type
           accepted == SettingInRange(setting_type, user_input)
           s2 == IF accepted
                 THEN _save([s1 EXCEPT !.config.settings[SettingField(setting_type)] =
                                           SettingValue(setting_type, user_input)])
                 ELSE s1
           state == IF accepted THEN "END" ELSE "POST_SETTINGS"
       IN  /\ CommitUser([World EXCEPT !.st = s2], post, user_data, cancelled,
                         state, uploads)
           /\ unauthorized' = (unauthorized \/ (accepted /\ ~IsAdmin(s1, OperatorId)))
           /\ UNCHANGED standalone
           /\ call' = [fn |-> "handle_settings_input", arg |-> user_input,
                       setting_type |-> setting_type,
                       before |-> s1.config.settings, after |-> s2.config.settings,
                       state |-> state]
           /\ UNCHANGED missed_reload

\* button "toggle_notifications" pressed by the operator: button_handler's
\* admin check, then the setting is inverted and saved (an exception of
\* get_config ends the handler before)
toggle_notifications ==
    /\ conversation = "END"
    /\ LET s1 == get_config(get_admins(Store))
       IN  /\ IsAdmin(s1, OperatorId)
           /\ CommitOther([World EXCEPT !.st =
                              IF s1.outcome = "ok"
                              THEN _save([s1 EXCEPT !.config.settings.notifications = ~@])
                              ELSE s1],
                          post, user_data, cancelled)

\* the numbers of valid messages a text file splits into
FileSizes == {2, MAX_BATCH_MESSAGES}

\* a text message of the operator (its content plays no part)
TextMessage == Message(3)

\* add_to_batch on a message that is not a text file: the size check, then
\* the append
add_message(batch, message_data) ==
    IF Len(batch) >= MAX_BATCH_MESSAGES
    THEN batch
    ELSE Append(batch, message_data)

\* "for msg in messages": the cap test before every append
RECURSIVE FileLoop(_, _)
FileLoop(batch, n) ==
    IF n = 0 \/ Len(batch) >= MAX_BATCH_MESSAGES
    THEN batch
    ELSE FileLoop(Append(batch, TextMessage), n - 1)

\* the loop over a file's messages without "if len(batch) >= MAX_BATCH_MESSAGES: break"
add_text_file_uncapped(batch, n) == batch \o [i \in 1..n |-> TextMessage]

\* the batch after the loop over the n valid messages of a text file
add_text_file(batch, n) == FileLoop(batch, n)

\* add_to_batch on a text, photo or video of the operator: admin check, size
\* check, append to the list user_data holds (no await in between)
add_to_batch ==
    /\ LET s1 == get_admins(Store)
           batch == add_message(user_data.batch, TextMessage)
       IN  /\ IsAdmin(s1, OperatorId)
           /\ CommitOther([World EXCEPT !.st = s1], SharePost(batch),
                          [user_data EXCEPT !.batch = batch], cancelled)

\* add_to_batch on a text file with n valid messages, up to its await of
\* get_file: admin check and size check; the handler keeps a reference to
\* the batch list while the file is fetched
add_to_batch_file(n) ==
    /\ Len(uploads) < MaxUploads
    /\ LET s1 == get_admins(Store)
       IN  /\ IsAdmin(s1, OperatorId)
           /\ Len(user_data.batch) < MAX_BATCH_MESSAGES
           /\ CommitUser([World EXCEPT !.st = s1], post, user_data, cancelled,
                         conversation, Append(uploads, [n |-> n, live |-> TRUE,
                                          post |-> post.pc # "idle" /\ post.shared]))
           /\ UNCHANGED <<unauthorized, missed_reload, call, standalone>>

\* the download of upload i is over: the loop appends to the list the
\* handler holds, which is the operator's batch unless that was replaced
\* (live), and the list a post in progress iterates if it is the same (post)
add_to_batch_file_done(i) ==
    /\ i \in DOMAIN uploads
    /\ CommitUser(World,
                  IF uploads[i].post
                  THEN [post EXCEPT !.d.batch = add_text_file(@, uploads[i].n)]
                  ELSE post,
                  IF uploads[i].live
                  THEN [user_data EXCEPT !.batch = add_text_file(@, uploads[i].n)]
                  ELSE user_data,
                  cancelled, conversation,
                  [k \in 1..(Len(uploads) - 1) |->
                      IF k < i THEN uploads[k] ELSE uploads[k + 1]])
    /\ UNCHANGED <<unauthorized, missed_reload, call, standalone>>

\* button "batch_clear": button_handler's admin check, then clear_batch binds
\* a new empty list; the handlers still fetching a file hold the old one
clear_batch ==
    /\ LET s1 == get_admins(Store)
       IN  /\ IsAdmin(s1, OperatorId)
           /\ CommitUser([World EXCEPT !.st = s1],
                         [post EXCEPT !.shared = FALSE],
                         [user_data EXCEPT !.batch = <<>>], cancelled,
                         conversation, Detached)
           /\ UNCHANGED <<unauthorized, missed_reload, call, standalone>>

\* button "settings_menu" pressed by the owner: button_handler's get_admins
\* and admin check, then post_settings reads the config.  An exception of the
\* first call ends the handler.
post_settings ==
    /\ LET s1 == get_admins(Store)
           s2 == IF s1.outcome = "ok" /\ IsAdmin(s1, OwnerId)
                 THEN get_config(s1)
                 ELSE s1
       IN  /\ CommitUser([World EXCEPT !.st = s2], post, user_data, cancelled,
                         conversation, uploads)
           /\ missed_reload' = (missed_reload
                                  \/ (now - last_loaded > FreshSeconds /\ s1 = Store))
           /\ UNCHANGED <<unauthorized, call, standalone>>

\* CONFIG_FILE is deleted, or overwritten with something that is not the
\* JSON the bot wrote, by something outside the bot
FileReplaced(new_state) ==
    /\ process # "hung"
    /\ file_state = "json"
    /\ file_state' = new_state
    /\ UNCHANGED <<now, config, file, last_loaded, ticks, post, user_data,
                   advances, exec_count, cancelled, sent_after_cancel, lost,
                   missed, bad_left, all_failed, last_tick, done_log, total_sent,
                   process, conversation, uploads, unauthorized, missed_reload,
                   call, standalone>>

\* the times without any update that are tried: just over the freshness
\* window, a whole day, a day and half a minute
JumpSeconds == {ClockStep, DaySeconds, DaySeconds + FreshSeconds \div 2}

\* no update and no tick for d seconds
ClockJump(d) ==
    /\ advances < MaxAdvances
    /\ now' = now + d
    /\ advances' = advances + 1
    /\ done_log' = NoLog
    /\ UNCHANGED <<config, file, last_loaded, ticks, post, user_data,
                   exec_count, cancelled, sent_after_cancel, lost, missed,
                   bad_left, all_failed, last_tick, total_sent,
                   file_state, process, conversation, uploads, unauthorized,
                   missed_reload, call, standalone>>

\* ------------------------------------------------ text files
\* What a text file is made of: a visible character "a", a run "L" of
\* MAX_MESSAGE_LENGTH + 1 visible characters, a space "s", a line end "n"
\* (LF) and a line end "rn" (CR LF).
Pieces == {"a", "L", "s", "n", "rn"}

Contents == UNION {[1..k -> Pieces] : k \in 0..MaxPieces}

\* file_content.decode('utf-8'): the characters of the file, CR and LF apart
RECURSIVE Decode(_)
Decode(pieces) ==
    IF pieces = <<>> THEN <<>>
    ELSE (IF Head(pieces) = "rn" THEN <<"r", "n">> ELSE <<Head(pieces)>>)
         \o Decode(Tail(pieces))

\* what str.strip() removes
Whitespace == {"s", "n", "r"}

\* text_content.split(TEXT_FILE_DELIMITER), the delimiter being "\n\n":
\* cur is the segment being read
RECURSIVE SplitSegments(_, _)
SplitSegments(chars, cur) ==
    IF chars = <<>> THEN <<cur>>
    ELSE IF Len(chars) >= 2 /\ chars[1] = "n" /\ chars[2] = "n"
         THEN <<cur>> \o SplitSegments(SubSeq(chars, 3, Len(chars)), <<>>)
         ELSE SplitSegments(Tail(chars), Append(cur, Head(chars)))

RECURSIVE lstrip(_)
lstrip(chars) ==
    IF chars # <<>> /\ Head(chars) \in Whitespace THEN lstrip(Tail(chars)) ELSE chars

RECURSIVE rstrip(_)
rstrip(chars) ==
    IF chars # <<>> /\ chars[Len(chars)] \in Whitespace
    THEN rstrip(SubSeq(chars, 1, Len(chars) - 1))
    ELSE chars

strip(chars) == rstrip(lstrip(chars))

\* len(content)
RECURSIVE CharLen(_)
CharLen(chars) ==
    IF chars = <<>> THEN 0
    ELSE (IF Head(chars) = "L" THEN MAX_MESSAGE_LENGTH + 1 ELSE 1) + CharLen(Tail(chars))

validate_message_content(content) ==
    content # <<>> /\ CharLen(content) <= MAX_MESSAGE_LENGTH

\* messages = [msg.strip() for msg in messages if msg.strip()]
StrippedSegments(text_content) ==
    LET segments == SplitSegments(text_content, <<>>)
    IN  SelectSeq([i \in DOMAIN segments |-> strip(segments[i])],
                  LAMBDA msg : msg # <<>>)

TextOf(content) == [type |-> "text", content |-> content]

\* "for msg in messages": cap test, validate_message_content, append, count
RECURSIVE AppendMessages(_, _, _)
AppendMessages(batch, messages, added_count) ==
    IF messages = <<>> \/ Len(batch) >= MAX_BATCH_MESSAGES
    THEN [batch |-> batch, added_count |-> added_count]
    ELSE IF validate_message_content(Head(messages))
         THEN AppendMessages(Append(batch, TextOf(Head(messages))), Tail(messages),
                             added_count + 1)
         ELSE AppendMessages(batch, Tail(messages), added_count)

\* the text-file branch of add_to_batch after the download
add_text_content(batch, pieces) ==
    AppendMessages(batch, StrippedSegments(Decode(pieces)), 0)

\* add_to_batch on a text file of the operator, the whole handler (no other
\* update is handled during its awaits): admin check, size check, download,
\* split, appends
add_to_batch_document(pieces) ==
    /\ call = NoCall
    /\ LET s1 == get_admins(Store)
           r == add_text_content(user_data.batch, pieces)
       IN  /\ IsAdmin(s1, OperatorId)
           /\ Len(user_data.batch) < MAX_BATCH_MESSAGES
           /\ CommitUser([World EXCEPT !.st = s1], SharePost(r.batch),
                         [user_data EXCEPT !.batch = r.batch], cancelled,
                         conversation, uploads)
           /\ UNCHANGED standalone
           /\ call' = [fn |-> "add_to_batch", arg |-> pieces,
                       before |-> user_data.batch, after |-> r.batch,
                       added_count |-> r.added_count]
           /\ UNCHANGED <<unauthorized, missed_reload>>

\* ------------------------------------------------ channel ids
\* The characters of the texts tried: "@", "-", the digits "0", "1", "9", a
\* letter "x", "_", a character "!" of no class, and a line end "n".
Letters == {"x"}

Digits == {"0", "1", "9"}

RunOf(char, k) == [i \in 1..k |-> char]

\* the lengths tried for the run of characters after the first one
RunLengths == {0, 3, 4, 9, 10, 31, 32}

\* the texts tried: a prefix, possibly a first character, a run, possibly a
\* line end
ChannelIdTexts ==
    {prefix \o first \o RunOf(char, k) \o suffix :
        prefix \in {<<>>, <<"@">>, <<"-", "1", "0", "0">>, <<"-", "9", "9">>},
        first \in {<<>>, <<"x">>, <<"9">>, <<"_">>},
        char \in {"x", "9", "_", "!"},
        k \in RunLengths,
        suffix \in {<<>>, <<"n">>}}

\* the whole of chars is "@[a-zA-Z][a-zA-Z0-9_]{4,31}"
IsUsername(chars) ==
    /\ Len(chars) >= 6 /\ Len(chars) <= 33
    /\ chars[1] = "@"
    /\ chars[2] \in Letters
    /\ \A i \in 3..Len(chars) : chars[i] \in Letters \cup Digits \cup {"_"}

\* the whole of chars is "-100\d{10}"
IsNumericId(chars) ==
    /\ Len(chars) = 14
    /\ SubSeq(chars, 1, 4) = <<"-", "1", "0", "0">>
    /\ \A i \in 5..14 : chars[i] \in Digits

\* re.match of a pattern "^...$": "$" matches at the end of the text and
\* also just before a line end that is its last character
MatchToDollar(Whole(_), chars) ==
    \/ Whole(chars)
    \/ chars # <<>> /\ chars[Len(chars)] = "n"
                    /\ Whole(SubSeq(chars, 1, Len(chars) - 1))

\* validate_channel_id of main.py
validate_channel_id(channel_id) ==
    /\ channel_id # <<>>
    /\ MatchToDollar(IsUsername, channel_id) \/ MatchToDollar(IsNumericId, channel_id)

\* is_valid_channel_id of utilsvalidators.py: str(channel_id).startswith("-100")
is_valid_channel_id(channel_id) ==
    /\ Len(channel_id) >= 4
    /\ SubSeq(channel_id, 1, 4) = <<"-", "1", "0", "0">>

\* both validators called on the same text
ValidateChannelId(channel_id) ==
    /\ UNCHANGED standalone
    /\ call' = [fn |-> "validate_channel_id", arg |-> channel_id,
                main |-> validate_channel_id(channel_id),
                utils |-> is_valid_channel_id(channel_id)]
    /\ UNCHANGED <<now, config, file, last_loaded, ticks, post, user_data, advances,
                   exec_count, cancelled, sent_after_cancel, lost, missed,
                   bad_left, all_failed, last_tick, done_log, total_sent,
                   file_state, process, conversation, uploads, unauthorized,
                   missed_reload>>

\* ------------------------------------------------ validate_schedule_time
\* datetime.now().date(), as the instant of its midnight
DateOf(t) == t - (t % DaySeconds)

\* the bare "HH:MM" texts tried, as the two numbers strptime reads
HourMinutes == [h : {0, 12, 23, 24}, m : {0, 59, 60}]

\* datetime.strptime(time_str, "%H:%M") raises ValueError outside these ranges
StrptimeHM(time_str) == time_str.h \in 0..23 /\ time_str.m \in 0..59

NoneTime == [valid |-> FALSE, at |-> 0]

\* validate_schedule_time on a bare HH:MM text (the four dated formats do
\* not match it): now1 is the clock read for the date, now2 the later read
\* of "if dt <= datetime.now()"
validate_schedule_time(time_str, now1, now2) ==
    IF ~StrptimeHM(time_str)
    THEN NoneTime
    ELSE LET dt == DateOf(now1) + time_str.h * 3600 + time_str.m * 60
         IN  [valid |-> TRUE,
              at |-> IF dt <= now2 THEN dt + DaySeconds ELSE dt]

\* the instants at which the function is called: noon, 23:58:30, 23:59:30
\* and the last second of the day
ClockSamples == {DaySeconds \div 2, DaySeconds - 90, DaySeconds - 30, DaySeconds - 1}

\* a call of validate_schedule_time during which the clock moves by gap
\* seconds (one call in a behaviour)
ValidateScheduleTime(time_str, gap) ==
    /\ call = NoCall
    /\ UNCHANGED standalone
    /\ call' = [fn |-> "validate_schedule_time", arg |-> time_str,
                now1 |-> now, now2 |-> now + gap,
                result |-> validate_schedule_time(time_str, now, now + gap)]
    /\ now' = now + gap
    /\ UNCHANGED <<config, file, last_loaded, ticks, post, user_data, advances,
                   exec_count, cancelled, sent_after_cancel, lost, missed,
                   bad_left, all_failed, last_tick, done_log, total_sent,
                   file_state, process, conversation, uploads, unauthorized,
                   missed_reload>>

\* time passes
ClockAdvance ==
    /\ advances < MaxAdvances
    /\ now' = now + ClockStep
    /\ advances' = advances + 1
    /\ done_log' = NoLog
    /\ UNCHANGED <<config, file, last_loaded, ticks, post, user_data,
                   exec_count, cancelled, sent_after_cancel, lost, missed,
                   bad_left, all_failed, last_tick, total_sent,
                   file_state, process, conversation, uploads, unauthorized,
                   missed_reload, call, standalone>>

\* ------------------------------------------------ modules outside main.py

\* what these modules leave alone
MainUnchanged ==
    UNCHANGED <<now, config, file, last_loaded, ticks, post, user_data, advances,
                exec_count, cancelled, sent_after_cancel, lost, missed,
                bad_left, all_failed, last_tick, done_log, total_sent,
                file_state, process, conversation, uploads, unauthorized,
                missed_reload>>

\* handlers run one at a time: no update is handled while execute_post of
\* handlers/post.py is suspended in a send
Free == standalone.posting.pc = "idle"

\* the decimal text of -n starts with "-100"
RECURSIVE StartsWith100(_)
StartsWith100(n) ==
    IF n = 100 THEN TRUE
    ELSE IF n < 1000 THEN FALSE
    ELSE StartsWith100(n \div 10)

\* is_valid_channel_id of utilsvalidators.py on an int
is_valid_channel_int(channel_id) == channel_id < 0 /\ StartsWith100(0 - channel_id)

\* ConfigManager.get_fixed_channels of configmanager.py: the list in the file,
\* [] when there is no file
get_fixed_channels == standalone.fixed_channels

\* ConfigManager.add_fixed_channel of configmanager.py: the list read, the
\* entry appended, the list written
add_fixed_channel(channels, channel_id, channel_name) ==
    Append(channels, [id |-> channel_id, name |-> channel_name])

\* ConfigManager.remove_fixed_channel: [c for c in channels if c['id'] != channel_id]
remove_fixed_channel(channels, channel_id) ==
    SelectSeq(channels, LAMBDA c : c.id # channel_id)

\* the texts sent as a channel id: int(text) gives value, or raises ValueError
ChannelInputs ==
    {[integer |-> TRUE, value |-> 0 - 1001], [integer |-> TRUE, value |-> 0 - 1002],
     [integer |-> TRUE, value |-> 7], [integer |-> TRUE, value |-> 0],
     [integer |-> FALSE, value |-> 0]}

\* add_channel_prompt of handlerschannel.py
add_channel_prompt ==
    /\ Free
    /\ standalone' = [standalone EXCEPT !.user_data.awaiting_channel_id = TRUE]
    /\ call' = [fn |-> "add_channel_prompt"]
    /\ MainUnchanged

\* handle_channel_input of handlerschannel.py on a text message; known tells
\* whether get_chat found the channel
handle_channel_input(text, known) ==
    /\ Free
    /\ standalone.user_data.awaiting_channel_id
    /\ Len(standalone.fixed_channels) < MaxFixedChannels
    /\ LET channel_id == text.value
           channel_name == IF known THEN "title" ELSE "Unknown Channel"
           added == text.integer /\ channel_id # 0 /\ is_valid_channel_int(channel_id)
           channels == IF added
                       THEN add_fixed_channel(get_fixed_channels, channel_id, channel_name)
                       ELSE get_fixed_channels
       IN  /\ standalone' = [standalone EXCEPT
                                !.fixed_channels = channels,
                                !.user_data.awaiting_channel_id = IF added THEN FALSE ELSE @]
           /\ call' = [fn |-> "handle_channel_input", arg |-> text, added |-> added,
                       before |-> get_fixed_channels, after |-> channels]
    /\ MainUnchanged

\* remove_channel of handlerschannel.py, on the button of channel_id
remove_channel_button(channel_id) ==
    /\ Free
    /\ LET channels == remove_fixed_channel(get_fixed_channels, channel_id)
       IN  /\ standalone' = [standalone EXCEPT !.fixed_channels = channels]
           /\ call' = [fn |-> "remove_channel", arg |-> channel_id,
                       before |-> get_fixed_channels, after |-> channels]
    /\ MainUnchanged

\* collect_message of handlers/batch.py
collect_message(text) ==
    /\ Free
    /\ Len(standalone.user_data.batch_messages) < MaxModuleBatch
    /\ standalone' = [standalone EXCEPT !.user_data.batch_messages = Append(@, text)]
    /\ call' = [fn |-> "collect_message", arg |-> text]
    /\ MainUnchanged

\* execute_post of handlers/post.py from the line after the channel loop: the
\* batch is cleared when success_count > 0; call records the finished post
FinishPosting(p) ==
    /\ standalone' = [standalone EXCEPT
                         !.posting = NoPosting,
                         !.user_data.batch_messages = IF p.success_count > 0 THEN <<>> ELSE @]
    /\ call' = [fn |-> "handlers.post.execute_post", messages |-> p.messages,
                channels |-> p.channels, attempted |-> p.attempted,
                failed |-> p.failed, success_count |-> p.success_count,
                cleared |-> p.success_count > 0]

\* the loop of execute_post moves to the next channel, or ends
NextChannel(p) ==
    IF p.ci < Len(p.channels)
    THEN /\ standalone' = [standalone EXCEPT !.posting = [p EXCEPT !.ci = @ + 1, !.mi = 1]]
         /\ UNCHANGED call
    ELSE FinishPosting(p)

\* execute_post of handlers/post.py on "confirm_post", up to its first send
PostingStart ==
    /\ Free
    /\ standalone.user_data.batch_messages # <<>>
    /\ get_fixed_channels # <<>>
    /\ standalone' = [standalone EXCEPT
                         !.posting = [NoPosting EXCEPT
                                         !.pc = "send",
                                         !.messages = standalone.user_data.batch_messages,
                                         !.channels = get_fixed_channels,
                                         !.ci = 1, !.mi = 1]]
    /\ call' = NoCall
    /\ MainUnchanged

\* a send of execute_post returns (ok) or raises: "try: for message in
\* messages: await send_message(...); success_count += 1  except Exception"
\* has the loop over the messages inside the try
PostingSendResult(ok) ==
    /\ standalone.posting.pc = "send"
    /\ LET p == standalone.posting
           p1 == [p EXCEPT !.attempted = @ \cup {<<p.ci, p.mi>>}]
       IN  IF ok
           THEN IF p.mi < Len(p.messages)
                THEN /\ standalone' = [standalone EXCEPT !.posting = [p1 EXCEPT !.mi = @ + 1]]
                     /\ UNCHANGED call
                ELSE NextChannel([p1 EXCEPT !.success_count = @ + 1])
           ELSE NextChannel([p1 EXCEPT !.failed = @ \cup {<<p.ci, p.mi>>}])
    /\ MainUnchanged

\* is_valid_time_format of utilsvalidators.py on a text "h:m" of two numbers
is_valid_time_format(time_str) == time_str.h \in 0..23 /\ time_str.m \in 0..59

\* the chat of the operator with the bot, and the chat_id of a job that was
\* given none
OperatorChat == OperatorId
NoChat == 0

\* datetime.now(timezone("Asia/Kolkata")) at the calls tried: 12:00:00 sharp
\* and one second later
KolkataClocks == {DaySeconds \div 2, DaySeconds \div 2 + 1}

\* the texts of a message to schedule: 0 is a message without text
ScheduledTexts == {0, 1}

\* schedule_new_post_prompt of handlers/schedule.py
schedule_new_post_prompt ==
    /\ Free
    /\ standalone' = [standalone EXCEPT !.user_data.awaiting_scheduled_message = TRUE]
    /\ call' = [fn |-> "schedule_new_post_prompt"]
    /\ MainUnchanged

\* receive_scheduled_message of handlers/schedule.py
receive_scheduled_message(text) ==
    /\ Free
    /\ standalone.user_data.awaiting_scheduled_message
    /\ standalone' = [standalone EXCEPT
                         !.user_data.scheduled_message_text = text,
                         !.user_data.awaiting_scheduled_time = TRUE,
                         !.user_data.awaiting_scheduled_message = FALSE]
    /\ call' = [fn |-> "receive_scheduled_message", arg |-> text]
    /\ MainUnchanged

\* job_queue.run_once(send_scheduled_post, schedule_time, data={...},
\* name="scheduled_post"): no chat_id argument is passed, Job.chat_id is None
run_once(job_queue, schedule_time, data) ==
    Append(job_queue, [when |-> schedule_time, data |-> data, chat_id |-> NoChat])

\* receive_scheduled_time of handlers/schedule.py on the text time_str, the
\* Kolkata clock reading clock; outcome is "bad format", "no message" or
\* "scheduled"
receive_scheduled_time(time_str, clock) ==
    /\ Free
    /\ standalone.user_data.awaiting_scheduled_time
    /\ Len(standalone.job_queue) < MaxQueued
    /\ LET u == standalone.user_data
           today == DateOf(clock) + time_str.h * 3600 + time_str.m * 60
           schedule_time == IF today < clock THEN today + DaySeconds ELSE today
           message_text == u.scheduled_message_text
           outcome == IF ~is_valid_time_format(time_str) THEN "bad format"
                      ELSE IF message_text = 0 THEN "no message"
                      ELSE "scheduled"
           reset == [u EXCEPT !.awaiting_scheduled_message = FALSE,
                              !.awaiting_scheduled_time = FALSE,
                              !.scheduled_message_text = 0]
       IN  /\ standalone' =
                 IF outcome = "scheduled"
                 THEN [standalone EXCEPT
                         !.job_queue = run_once(@, schedule_time,
                                                [text |-> message_text,
                                                 time |-> schedule_time,
                                                 chat_id |-> OperatorChat]),
                         !.user_data = reset]
                 ELSE standalone
           /\ call' = [fn |-> "receive_scheduled_time", arg |-> time_str,
                       now |-> clock, outcome |-> outcome,
                       schedule_time |-> IF outcome = "scheduled" THEN schedule_time ELSE 0]
    /\ MainUnchanged

\* the job queue runs the first job: send_scheduled_post of
\* handlers/schedule.py sends to context.job.chat_id
send_scheduled_post ==
    /\ Free
    /\ standalone.job_queue # <<>>
    /\ LET job == Head(standalone.job_queue)
       IN  /\ standalone' = [standalone EXCEPT !.job_queue = Tail(@)]
           /\ call' = [fn |-> "send_scheduled_post", chat_id |-> job.chat_id,
                       text |-> job.data["text"], scheduled_from |-> job.data.chat_id]
    /\ MainUnchanged

\* the texts sent as a delay or a number of retries: int(text) gives value,
\* or raises ValueError
NumberInputs ==
    {[integer |-> TRUE, value |-> v] : v \in {0 - 1, 0, 1, 3}}
        \cup {[integer |-> FALSE, value |-> 0]}

\* set_delay_prompt and set_retry_prompt of handlerssettings.py; key is
\* "awaiting_delay_input" or "awaiting_retry_input"
set_prompt(key) ==
    /\ Free
    /\ standalone' = [standalone EXCEPT !.user_data[key] = TRUE]
    /\ call' = [fn |-> "set_prompt", key |-> key]
    /\ MainUnchanged

\* receive_delay_input and receive_retry_input of handlerssettings.py: "try:
\* value = int(text); if value < 0: raise ValueError; bot_data[setting] =
\* value  except ValueError: reply  finally: user_data[key] = False"
receive_input(key, setting, text) ==
    /\ Free
    /\ standalone.user_data[key]
    /\ LET stored == text.integer /\ ~(text.value < 0)
       IN  /\ standalone' = [standalone EXCEPT
                                !.bot_data[setting] = IF stored THEN text.value ELSE @,
                                !.user_data[key] = FALSE]
           /\ call' = [fn |-> "receive_input", key |-> key, setting |-> setting,
                       arg |-> text, stored |-> stored,
                       before |-> standalone.bot_data]
    /\ MainUnchanged

receive_delay_input(text) == receive_input("awaiting_delay_input", "post_delay", text)

receive_retry_input(text) == receive_input("awaiting_retry_input", "retry_attempts", text)

\* -------------------------------------------------- specifications
\* The scheduler: ticks that may overlap and /status, at any interleaving of
\* their awaits.
Next ==
    \/ \E t \in TickIds : TickStart(t)
    \/ \E t \in TickIds, ok \in BOOLEAN : TickSendResult(t, ok)
    \/ \E t \in TickIds : TickSleepDone(t)
    \/ \E t \in TickIds : TickNotifyDone(t)
    \/ status
    \/ schedule_management_menu
    \/ ClockAdvance

Spec == Init /\ [][Next]_vars

\* The cancel button against a running tick, at any interleaving of their awaits.
CancelNext ==
    \/ TickStart(1)
    \/ \E ok \in BOOLEAN : TickSendResult(1, ok)
    \/ TickSleepDone(1)
    \/ TickNotifyDone(1)
    \/ \E j \in JobIds : delete_schedule(j)
    \/ schedule_management_menu
    \/ ClockAdvance

CancelSpec == Init /\ [][CancelNext]_vars

\* The dispatchers: one tick at a time and the operator's immediate post, at
\* any interleaving of their awaits.
PostNext ==
    \/ TickStart(1)
    \/ \E ok \in BOOLEAN : TickSendResult(1, ok)
    \/ TickSleepDone(1)
    \/ TickNotifyDone(1)
    \/ PostStart
    \/ PostProgressDone
    \/ \E ok \in BOOLEAN : PostSendResult(ok)
    \/ schedule_management_menu
    \/ ClockAdvance

PostSpec == Init /\ [][PostNext]_vars

\* The schedule flow of the operator: the time, the channels, the preview's
\* "Confirm Post" button.
ScheduleNext ==
    \/ schedule_batch_menu
    \/ \E time_input \in ScheduleTimes : schedule_batch_confirm(time_input)
    \/ \E channel_id \in ChannelIds : toggle_channel_selection(channel_id)
    \/ PostStart
    \/ PostProgressDone
    \/ \E ok \in BOOLEAN : PostSendResult(ok)
    \/ ClockAdvance

ScheduleSpec == Init /\ [][ScheduleNext]_vars

\* The admin list and the settings conversation of the operator.
AdminNext ==
    \/ \E admin_id \in UserIds : AddAdminCall(admin_id)
    \/ \E admin_id \in UserIds : RemoveAdminCall(admin_id)
    \/ \E setting_type \in SettingTypes : setting_input_prompt(setting_type)
    \/ \E user_input \in FewSettingInputs : handle_settings_input(user_input)
    \/ toggle_notifications
    \/ ClockAdvance

AdminSpec == AdminInit /\ [][AdminNext]_vars

\* The channel list under calls of add_channel and remove_channel.
ChannelNext ==
    \/ \E channel_id \in ChannelKeys : \E channel_info \in ChannelInfos :
          AddChannelCall(channel_id, channel_info)
    \/ \E channel_id \in ChannelKeys : RemoveChannelCall(channel_id)
    \/ toggle_notifications
    \/ AddAdminCall(OperatorId)
    \/ ClockAdvance

ChannelSpec == AdminInit /\ [][ChannelNext]_vars

\* The operator's channel selection while channels are added and removed.
SelectionNext ==
    \/ AddAdminCall(OperatorId)
    \/ \E channel_id \in ChannelKeys : \E channel_info \in ChannelInfos :
          AddChannelCall(channel_id, channel_info)
    \/ \E channel_id \in ChannelKeys : RemoveChannelCall(channel_id)
    \/ \E channel_id \in ChannelKeys : toggle_channel_selection(channel_id)
    \/ select_all_channels
    \/ unselect_all_channels
    \/ ClockAdvance

SelectionSpec == AdminInit /\ [][SelectionNext]_vars

\* The admin conversation of the operator, after settings conversations or
\* none.
AdminConvNext ==
    \/ \E admin_id \in UserIds : AddAdminCall(admin_id)
    \/ add_admin_prompt
    \/ remove_admin_prompt
    \/ \E user_input \in UserIdTexts : handle_admin_input(user_input)
    \/ \E setting_type \in SettingTypes : setting_input_prompt(setting_type)
    \/ \E user_input \in FewSettingInputs : handle_settings_input(user_input)
    \/ ClockAdvance

AdminConvSpec == AdminInit /\ [][AdminConvNext]_vars

\* The operator's immediate post, with messages of the operator and the clear
\* button handled before it, after it and while it waits for a send.
PostBatchNext ==
    \/ AddAdminCall(OperatorId)
    \/ Len(user_data.batch) < MaxBatchTried /\ add_to_batch
    \/ clear_batch
    \/ select_all_channels
    \/ \E channel_id \in ChannelIds : toggle_channel_selection(channel_id)
    \/ config.stats.batches < MaxPostsTried /\ PostStart
    \/ PostProgressDone
    \/ \E ok \in BOOLEAN : PostSendResult(ok)

PostBatchSpec == AdminInit /\ [][PostBatchNext]_vars

\* The sweep of cleanup_expired_jobs from /status, between cancels, a change
\* of the settings and the passing of time.
CleanupNext ==
    \/ status
    \/ \E j \in JobIds : delete_schedule(j)
    \/ toggle_notifications
    \/ ClockAdvance

CleanupSpec == CleanupInit /\ [][CleanupNext]_vars

\* The dispatchers with and without a footer, while the operator sets another
\* footer.
FooterNext ==
    \/ TickStart(1)
    \/ \E ok \in BOOLEAN : TickSendResult(1, ok)
    \/ TickSleepDone(1)
    \/ TickNotifyDone(1)
    \/ PostStart
    \/ PostProgressDone
    \/ \E ok \in BOOLEAN : PostSendResult(ok)
    \/ setting_input_prompt("set_footer")
    \/ handle_settings_input(PlainText(4))

FooterSpec == FooterInit /\ [][FooterNext]_vars

\* The settings conversation of the operator, with every text of SettingInputs.
SettingsNext ==
    \/ AddAdminCall(OperatorId)
    \/ \E setting_type \in SettingTypes : setting_input_prompt(setting_type)
    \/ \E user_input \in SettingInputs : handle_settings_input(user_input)
    \/ toggle_notifications
    \/ ClockAdvance

SettingsSpec == AdminInit /\ [][SettingsNext]_vars

\* The operator's batch: single messages, text files whose download may
\* overlap other updates, and the clear button.
BatchNext ==
    \/ AddAdminCall(OperatorId)
    \/ add_to_batch
    \/ \E n \in FileSizes : add_to_batch_file(n)
    \/ \E i \in 1..MaxUploads : add_to_batch_file_done(i)
    \/ clear_batch

BatchSpec == AdminInit /\ [][BatchNext]_vars

\* The config cache: reads of the config after pauses of several lengths,
\* with the file intact, deleted or damaged.
LoadNext ==
    \/ post_settings
    \/ toggle_notifications
    \/ \E new_state \in FileStates \ {"json"} : FileReplaced(new_state)
    \/ \E d \in JumpSeconds : ClockJump(d)

LoadSpec == Init /\ [][LoadNext]_vars

\* One text file uploaded by the operator.
FileNext ==
    \/ \E pieces \in Contents : add_to_batch_document(pieces)

FileSpec == FileInit /\ [][FileNext]_vars

\* The two channel-id validators called with the texts of ChannelIdTexts.
ChannelIdNext ==
    \/ \E channel_id \in ChannelIdTexts : ValidateChannelId(channel_id)

ChannelIdSpec == AdminInit /\ [][ChannelIdNext]_vars

\* validate_schedule_time called with bare times at several instants.
TimeNext ==
    \/ \E d \in ClockSamples : ClockJump(d)
    \/ \E time_str \in HourMinutes : \E gap \in 0..MaxReadGap :
          ValidateScheduleTime(time_str, gap)

TimeSpec == AdminInit /\ [][TimeNext]_vars

\* One handler at a time: a handler starts only when no other is suspended.
Quiet == post.pc = "idle" /\ \A t \in TickIds : ticks[t].pc = "idle"

SeqNext ==
    \/ \E t \in TickIds : Quiet /\ TickStart(t)
    \/ \E t \in TickIds, ok \in BOOLEAN : TickSendResult(t, ok)
    \/ \E t \in TickIds : TickSleepDone(t)
    \/ \E t \in TickIds : TickNotifyDone(t)
    \/ Quiet /\ PostStart
    \/ PostProgressDone
    \/ \E ok \in BOOLEAN : PostSendResult(ok)
    \/ Quiet /\ status
    \/ \E j \in JobIds : Quiet /\ delete_schedule(j)
    \/ Quiet /\ schedule_management_menu
    \/ ClockAdvance

SeqSpec == SeqInit /\ [][SeqNext]_vars

\* handlers/post.py with the batch of handlers/batch.py and the channels of
\* handlerschannel.py
PostModuleNext ==
    \/ \E text \in 1..2 : collect_message(text)
    \/ add_channel_prompt
    \/ \E text \in ChannelInputs, known \in BOOLEAN : handle_channel_input(text, known)
    \/ PostingStart
    \/ \E ok \in BOOLEAN : PostingSendResult(ok)

PostModuleSpec == AdminInit /\ [][PostModuleNext]_vars

\* the channel list of configmanager.py under the handlers of handlerschannel.py
FixedChannelNext ==
    \/ add_channel_prompt
    \/ \E text \in ChannelInputs, known \in BOOLEAN : handle_channel_input(text, known)
    \/ \E channel_id \in {0 - 1001, 0 - 1002, 7} : remove_channel_button(channel_id)

FixedChannelSpec == AdminInit /\ [][FixedChannelNext]_vars

\* the session flow of handlers/schedule.py and its job queue
ScheduleModuleNext ==
    \/ schedule_new_post_prompt
    \/ \E text \in ScheduledTexts : receive_scheduled_message(text)
    \/ \E time_str \in HourMinutes, clock \in KolkataClocks :
          receive_scheduled_time(time_str, clock)
    \/ send_scheduled_post

ScheduleModuleSpec == AdminInit /\ [][ScheduleModuleNext]_vars

\* the delay and retry inputs of handlerssettings.py
SettingsModuleNext ==
    \/ set_prompt("awaiting_delay_input")
    \/ set_prompt("awaiting_retry_input")
    \/ \E text \in NumberInputs : receive_delay_input(text)
    \/ \E text \in NumberInputs : receive_retry_input(text)

SettingsModuleSpec == AdminInit /\ [][SettingsModuleNext]_vars

\* ------------------------------------------------------------ claims
\* the job a tick is executing or has executed and not yet removed
InHand(j) ==
    \E t \in TickIds :
        ticks[t].pc # "idle" /\ ticks[t].todo # <<>> /\ Head(ticks[t].todo).id = j

Dispatches ==
    {ticks[t].d : t \in {u \in TickIds : ticks[u].pc \in {"send", "sleep"}}}
    \cup (IF post.pc = "send" THEN {post.d} ELSE {})

Sending ==
    {ticks[t].d : t \in {u \in TickIds : ticks[u].pc = "send"}}
    \cup (IF post.pc = "send" THEN {post.d} ELSE {})

\* C1: a run of run_scheduled_jobs executes and removes every job whose
\* schedule_time parses and is <= now, whatever else the store holds: no
\* finished tick has left behind a job that was valid and due when it started.
C1_TickServesEveryDueJob == missed = {}

\* C2: no scheduled job is passed to execute_scheduled_job more than once,
\* under any interleaving of ticks.
C2_ExecutedAtMostOnce == \A j \in JobIds : exec_count[j] <= 1

\* C3: when a tick runs right after a finished tick, with the same now, the
\* first one has executed every due job: the second has no job to execute,
\* and no job is executed twice.
C3_SecondRunIsNoOp ==
    /\ \A t \in TickIds :
          (last_tick.ran /\ ticks[t].pc # "idle"
              /\ ticks[t].current_time = last_tick.at)
          => ticks[t].todo = <<>>
    /\ \A j \in JobIds : exec_count[j] <= 1

\* C4: a job with a parseable schedule_time leaves scheduled_posts only by a
\* cancel or after it was passed to execute_scheduled_job; cleanup_expired_jobs
\* (end of a tick, /status) never deletes one that was not executed.
C4_NoJobLost == lost = {}

\* C5: once the cancel of a job has reported "deleted", no send for that job
\* starts.
C5_NoSendAfterCancel == sent_after_cancel = {}

\* C6: a job whose schedule_time does not parse is gone from scheduled_posts
\* when the next tick has finished, and is never executed.
C6_BadJobRemovedByTick == bad_left = {}

\* C7: a job whose every send failed is removed by the tick that executed it,
\* is executed once only, and its statistics update leaves stats.posts as it
\* was.
C7_AllFailedJob ==
    /\ \A j \in all_failed :
          /\ exec_count[j] = 1
          /\ InHand(j) \/ j \notin DOMAIN config.scheduled_posts
    /\ (done_log.kind = "job" /\ done_log.successful_posts = 0)
          => /\ done_log.posts_after = done_log.posts_before
             /\ (done_log.job_id \in all_failed
                    => done_log.failed_posts = done_log.pairs)

\* C8: a dispatch that ran with nothing interleaved has raised stats.posts by
\* its successful sends and stats.batches by one, and last_post_channels is
\* the channel list it posted to.
C8_StatsOfOneDispatch ==
    done_log.kind # "none"
    => /\ done_log.posts_after = done_log.posts0 + done_log.successful_posts
       /\ done_log.batches_after = done_log.batches0 + 1
       /\ done_log.last_post_channels = done_log.channels

C8_Witness ==
    /\ done_log.kind = "job"
    /\ done_log.successful_posts = 2
    /\ done_log.posts0 > 0

\* C9: stats.posts never decreases, and with no dispatch in flight it is the
\* sum of the successful sends of the completed dispatches.
C9_PostsMonotone ==
    /\ [][config'.stats.posts >= config.stats.posts]_vars
    /\ []((post.pc = "idle" /\ \A t \in TickIds : ticks[t].pc \in {"idle", "notify"})
            => config.stats.posts = total_sent)

\* C10: with max_retries >= 1 a send in flight is attempt 1..max_retries of
\* its (channel, message) pair and the pair has not succeeded yet, and every
\* pair the loops entered was attempted.
C10_AttemptsBounded ==
    /\ \A d \in Sending :
          d.max_retries >= 1
          => /\ d.tried >= 1
             /\ d.tried <= d.max_retries
             /\ d.attempt = d.tried - 1
             /\ ~d.success
    /\ \A d \in Dispatches :
          d.max_retries >= 1 => d.pairs_attempted = d.pairs_entered

C10_Witness ==
    \E d \in Sending :
        /\ d.max_retries = MaxRetriesBound
        /\ d.tried = d.max_retries
        /\ d.mi = 2

C12_PauseAfterSuccess == \A d \in Sending : d.delay > 0 => ~d.unpaused

C14_RemoveIdempotent ==
    \A j \in DOMAIN config.scheduled_posts :
        LET s1 == remove_scheduled_job(Store, j)
            s2 == remove_scheduled_job(s1, j)
        IN  /\ remove_scheduled_job_found(Store, j)
            /\ ~remove_scheduled_job_found(s1, j)
            /\ j \notin DOMAIN s1.config.scheduled_posts
            /\ j \notin DOMAIN s2.config.scheduled_posts
            /\ s1.config.scheduled_posts = Without(config.scheduled_posts, {j})
            /\ s2.config.scheduled_posts = s1.config.scheduled_posts
            /\ s1.file = s1.config /\ s2.file = s2.config

\* delete_schedule has removed a job, another job is still stored and the
\* cache has grown stale, so that the next call reloads the file first
C14_Witness ==
    /\ \E j \in cancelled : j \notin DOMAIN config.scheduled_posts
    /\ config.scheduled_posts # NoJobs
    /\ Stale(Store)

\* C15: no handler run for a user who is not in the admin list when it is
\* invoked changes the state; in particular handle_settings_input writes no
\* setting for an operator who was removed from the list after the prompt.
C15_NoChangeByNonAdmin == ~unauthorized

\* C16: from the default config, after any sequence of add_admin and
\* remove_admin calls the owner id is in the admin list, and remove_admin with
\* the owner id returns False and leaves the list unchanged.
C16_OwnerStaysAdmin ==
    /\ IsAdmin(Store, OwnerId)
    /\ IsAdmin(get_admins(Store), OwnerId)
    /\ ~remove_admin_returns(Store, OwnerId)
    /\ remove_admin(Store, OwnerId).config.admins = config.admins
    /\ \A admin_id \in UserIds : IsAdmin(remove_admin(Store, admin_id), OwnerId)

\* two admins were added and the first of them removed again
C16_Witness == config.admins = <<OwnerId, OperatorId + 1>> /\ file = config


\* C17: the operator's batch never holds more than MAX_BATCH_MESSAGES
\* messages, whatever single messages and text files are added and however
\* the file downloads interleave; on a full batch add_to_batch leaves the
\* batch as it is, and a file adds nothing to it.
C17_BatchBounded ==
    /\ Len(user_data.batch) <= MAX_BATCH_MESSAGES
    /\ \A i \in DOMAIN uploads :
          Len(add_text_file(user_data.batch, uploads[i].n)) <= MAX_BATCH_MESSAGES
    /\ Len(user_data.batch) = MAX_BATCH_MESSAGES
          => /\ add_message(user_data.batch, TextMessage) = user_data.batch
             /\ \A n \in FileSizes : add_text_file(user_data.batch, n) = user_data.batch

\* the batch is full while two files that were accepted before are still
\* being fetched for it
C17_Witness ==
    /\ Len(user_data.batch) = MAX_BATCH_MESSAGES
    /\ Len(uploads) >= 2
    /\ \A i \in DOMAIN uploads : uploads[i].live

\* C18: with the config file absent, _load returns (it does not wait for ever
\* in the _save it calls while holding the file lock), with the defaults in
\* memory and in the file.
C18_LoadOfAbsentFileReturns == process # "hung"

\* C19: when reading or decoding the config file fails in _load, no exception
\* leaves _load, and the complete default config is in memory and in the file.
C19_FailedReadGivesDefaults ==
    /\ process # "raised"
    /\ file_state = "garbage"
          => LET s1 == _load(Store)
             IN  /\ s1.outcome = "ok"
                 /\ s1.config = DefaultConfig
                 /\ s1.file = DefaultConfig

\* C20: every get_config called when the cache is older than the freshness
\* window reloads the file, whatever time has passed since the last load or
\* save.
C20_StaleCacheReloads == ~missed_reload

\* C21: for a bare HH:MM text validate_schedule_time returns a time strictly
\* after the clock at its return (now2); when the clock did not move during the
\* call that is today at HH:MM if strictly after the current time, and
\* tomorrow at HH:MM otherwise.
C21_BareTimeInFuture ==
    (call.fn = "validate_schedule_time" /\ call.result.valid)
    => LET today == DateOf(call.now1) + call.arg.h * 3600 + call.arg.m * 60
       IN  /\ call.result.at > call.now2
           /\ call.now1 = call.now2
                 => call.result.at = IF today > call.now1 THEN today
                                                         ELSE today + DaySeconds

\* a blank line inside a text: a line end directly followed by a line end
HasBlankLine(chars) ==
    \E i \in 1..(Len(chars) - 1) :
        /\ chars[i] = "n"
        /\ \/ chars[i + 1] = "n"
           \/ i + 2 <= Len(chars) /\ chars[i + 1] = "r" /\ chars[i + 2] = "n"

\* C22: a text file is split on its blank lines: every message add_to_batch
\* appends from it is a trimmed, non-empty segment of at most
\* MAX_MESSAGE_LENGTH characters that holds no blank line, the batch before
\* is kept and stays within the cap, the reported count is the growth, and
\* A, blank line, B, blank line, C on an empty batch gives A, B, C.
C22_FileSplitOnBlankLines ==
    /\ add_text_content(<<>>, <<"a", "n", "n", "b", "n", "n", "c">>)
          = [batch |-> <<TextOf(<<"a">>), TextOf(<<"b">>), TextOf(<<"c">>)>>,
             added_count |-> 3]
    /\ call.fn = "add_to_batch"
          => /\ call.added_count = Len(call.after) - Len(call.before)
             /\ SubSeq(call.after, 1, Len(call.before)) = call.before
             /\ Len(call.after) <= MAX_BATCH_MESSAGES
             /\ \A i \in (Len(call.before) + 1)..Len(call.after) :
                   LET content == call.after[i].content
                   IN  /\ content # <<>>
                       /\ Head(content) \notin Whitespace
                       /\ content[Len(content)] \notin Whitespace
                       /\ CharLen(content) <= MAX_MESSAGE_LENGTH
                       /\ ~HasBlankLine(content)

\* C23: from the default settings, whatever texts handle_settings_input is
\* given, delay >= 0, max_retries >= 1 and the footer has at most
\* MAX_FOOTER_LENGTH characters; a text that is no number, or a number out of
\* range, or a footer too long leaves the settings as they were and the
\* conversation in POST_SETTINGS.
C23_SettingsStayValid ==
    /\ config.settings.default_delay >= 0
    /\ config.settings.max_retries >= 1
    /\ config.settings.footer <= MAX_FOOTER_LENGTH
    /\ call.fn = "handle_settings_input"
          => LET bad == CASE call.setting_type = "set_delay" ->
                                ~call.arg.float \/ call.arg.tenths < 0
                                \/ call.arg.tenths > 10 * SecondTenths
                          [] call.setting_type = "set_retries" ->
                                ~call.arg.integer \/ call.arg.tenths < SecondTenths
                                \/ call.arg.tenths > 10 * SecondTenths
                          [] OTHER ->
                                ~call.arg.clear /\ call.arg.length > MAX_FOOTER_LENGTH
             IN  bad => call.after = call.before /\ call.state = "POST_SETTINGS"

\* a footer of the greatest length was set, and a later text was turned down
C23_Witness ==
    /\ config.settings.footer = MAX_FOOTER_LENGTH
    /\ call.fn = "handle_settings_input"
    /\ call.after = call.before
    /\ conversation = "POST_SETTINGS"

\* the config without its channels section
OtherSections(cfg) == [k \in DOMAIN cfg \ {"channels"} |-> cfg[k]]

\* C24: add_channel with an id already stored returns False and changes
\* nothing; with a new id it returns True and adds exactly that entry;
\* remove_channel removes exactly the named entry; no call touches another
\* channel or another section of the config.
C24_ChannelIdsUnique ==
    \A channel_id \in ChannelKeys :
        LET removed == remove_channel(Store, channel_id).config
        IN  /\ \A channel_info \in ChannelInfos :
                  LET added == add_channel(Store, channel_id, channel_info).config
                  IN  /\ OtherSections(added) = OtherSections(config)
                      /\ \A c \in DOMAIN config.channels :
                            c \in DOMAIN added.channels
                            /\ added.channels[c] = config.channels[c]
                      /\ IF channel_id \in DOMAIN config.channels
                         THEN /\ ~add_channel_returns(Store, channel_id)
                              /\ added = config
                         ELSE /\ add_channel_returns(Store, channel_id)
                              /\ DOMAIN added.channels
                                    = DOMAIN config.channels \cup {channel_id}
                              /\ added.channels[channel_id] = channel_info
            /\ OtherSections(removed) = OtherSections(config)
            /\ removed.channels = Without(config.channels, {channel_id})
            /\ remove_channel_returns(Store, channel_id)
                  = (channel_id \in DOMAIN config.channels)

\* a channel was added to the fixed ones, a fixed one was removed, and
\* another setting was changed in between
C24_Witness ==
    /\ DOMAIN config.channels = {2, 3}
    /\ config.channels[3] = [name |-> 4]
    /\ ~config.settings.notifications
    /\ file = config

\* C25: validate_channel_id (main.py) and is_valid_channel_id
\* (utilsvalidators.py) both return true exactly for "@" followed by 5 to 32
\* letters, digits or underscores that start with a letter, and for "-100"
\* followed by exactly 10 digits.
C25_ChannelIdValidators ==
    call.fn = "validate_channel_id"
    => LET valid == IsUsername(call.arg) \/ IsNumericId(call.arg)
       IN  call.main = valid /\ call.utils = valid

\* C26: toggle_channel_selection flips the membership of exactly the given
\* channel id in the operator's selection and leaves every other id as it
\* was, so that toggling the same id again restores the selection;
\* select_all_channels makes the selection the set of the known channel ids,
\* and unselect_all_channels makes it empty.
C26_SelectionOperations ==
    /\ call.fn = "toggle_channel_selection"
       => /\ (call.arg \in call.after) = (call.arg \notin call.before)
          /\ \A c \in (call.before \cup call.after) \ {call.arg} :
                c \in call.before /\ c \in call.after
          /\ toggle(call.after, call.arg) = call.before
          /\ user_data.selected_channels = call.after
    /\ call.fn = "select_all_channels"
       => user_data.selected_channels = call.known
    /\ call.fn = "unselect_all_channels"
       => user_data.selected_channels = {}

\* a selection that held a channel removed since was replaced by the known ids
C26_Witness ==
    /\ call.fn = "select_all_channels"
    /\ call.before \ call.known # {}
    /\ user_data.selected_channels = DOMAIN config.channels
    /\ 3 \in user_data.selected_channels

\* an id was toggled out of a selection of two
C26_WitnessToggle ==
    /\ call.fn = "toggle_channel_selection"
    /\ call.arg \in call.before
    /\ user_data.selected_channels = call.before \ {call.arg}
    /\ user_data.selected_channels # {}

\* C27: in the admin conversation opened with the admin_add button, a valid
\* user id that is not an admin yet is in the admin list after
\* handle_admin_input; opened with admin_remove, the id of an admin other
\* than the owner is no longer in the list after it.
C27_AdminConversation ==
    call.fn = "handle_admin_input" /\ call.valid
    => LET InList(admins) == \E i \in DOMAIN admins : admins[i] = call.arg.uid
       IN  /\ call.entry = "add_admin_prompt" /\ ~InList(call.before)
              => InList(call.after)
           /\ call.entry = "remove_admin_prompt" /\ InList(call.before)
                 /\ call.arg.uid # OwnerId
              => ~InList(call.after)

C29_FailedPostKeepsBatch ==
    (/\ done_log.kind = "post"
     /\ done_log.successful_posts = 0
     /\ done_log.failed_posts > 0)
    => /\ Len(user_data.batch) = done_log.batch_len
       /\ user_data.selected_channels
             = {done_log.channels[i] : i \in DOMAIN done_log.channels}

\* the config without its scheduled_posts section
SectionsButJobs(cfg) == [k \in DOMAIN cfg \ {"scheduled_posts"} |-> cfg[k]]

\* C30: cleanup_expired_jobs removes a job if and only if its schedule_time
\* is unparseable or now > schedule_time + 1 hour; the records of the jobs
\* that stay and the other sections of the config are unchanged, and the
\* file is saved only when a job was removed.
C30_CleanupRemovesExpiredOnly ==
    LET s1 == cleanup_expired_jobs(Store)
        jobs == config.scheduled_posts
        left == s1.config.scheduled_posts
    IN  /\ DOMAIN left \subseteq DOMAIN jobs
        /\ \A j \in DOMAIN jobs :
              (j \notin DOMAIN left)
                 <=> (\/ ~Parses(jobs[j].schedule_time)
                      \/ now > fromisoformat(jobs[j].schedule_time) + GraceSeconds)
        /\ \A j \in DOMAIN left : left[j] = jobs[j]
        /\ SectionsButJobs(s1.config) = SectionsButJobs(config)
        /\ DOMAIN left = DOMAIN jobs => s1 = get_config(Store)
        /\ DOMAIN left # DOMAIN jobs => s1.file = s1.config

\* the batch a dispatch was given: the operator's batch as it was when the
\* post began, or the batch of the job record
GivenBatch(d) ==
    IF d.job_id = 0 THEN post.batch0 ELSE JobData(d.job_id, BadTime).batch

\* C31: every text or caption that a dispatch hands to a send carries the
\* footer the dispatch read from the settings exactly once when that footer is
\* not empty (and no footer otherwise), whatever the number of failed
\* attempts before, and the messages of the batch or job record are as they
\* were given.
C31_FooterOncePerSend ==
    \A d \in Sending :
        /\ d.sent.body = GivenBatch(d)[d.mi].content
        /\ d.sent.footers = IF d.footer # 0 THEN <<d.footer>> ELSE <<>>
        /\ d.batch = GivenBatch(d)

\* a send is retried, after a failed attempt, with a footer
C31_Witness ==
    \E d \in Sending :
        /\ d.attempt >= 1
        /\ d.footer # 0
        /\ d.sent.footers = <<d.footer>>

\* C32: when execute_post of handlers/post.py has finished, every message of
\* the batch was sent (or tried) to every channel, a failed send
\* notwithstanding, and the batch was cleared exactly when success_count > 0.
C32_FailedSendSkipsNothing ==
    call.fn = "handlers.post.execute_post"
    => /\ \A ci \in DOMAIN call.channels, mi \in DOMAIN call.messages :
              <<ci, mi>> \in call.attempted
       /\ call.cleared = (call.success_count > 0)
       /\ (standalone.user_data.batch_messages = <<>>) = call.cleared

\* C36: no two entries of the fixed-channel list share an id, and
\* remove_fixed_channel(id) leaves the entries with another id, in their
\* order, and no other.
C36_FixedChannelsUnique ==
    /\ \A i, j \in DOMAIN standalone.fixed_channels :
          standalone.fixed_channels[i].id = standalone.fixed_channels[j].id => i = j
    /\ call.fn = "remove_channel"
          => call.after = SelectSeq(call.before, LAMBDA c : c.id # call.arg)

\* C33: the flags awaiting_scheduled_message and awaiting_scheduled_time of
\* handlers/schedule.py are never both true, and after receive_scheduled_time
\* has scheduled a post or reported an error other than a bad time format
\* both are false.
C33_ScheduleFlagsExclusive ==
    /\ ~(standalone.user_data.awaiting_scheduled_message
            /\ standalone.user_data.awaiting_scheduled_time)
    /\ call.fn = "receive_scheduled_time" /\ call.outcome # "bad format"
          => /\ ~standalone.user_data.awaiting_scheduled_message
             /\ ~standalone.user_data.awaiting_scheduled_time

\* C34: a post scheduled by receive_scheduled_time has a schedule time
\* strictly later than the clock it read, and send_scheduled_post sends the
\* stored text to the chat from which the post was scheduled.
C34_ScheduledLaterAndToChat ==
    /\ call.fn = "receive_scheduled_time" /\ call.outcome = "scheduled"
          => call.schedule_time > call.now
    /\ call.fn = "send_scheduled_post"
          => call.chat_id = call.scheduled_from /\ call.text # 0

\* C35: a delay or retry input of handlerssettings.py that is not an integer
\* or is negative leaves bot_data as it was and the session awaiting that
\* input, and no retry count below 1 is ever stored.
C35_InvalidInputKeepsAwaiting ==
    /\ call.fn = "receive_input" /\ ~(call.arg.integer /\ call.arg.value >= 0)
          => /\ standalone.bot_data = call.before
             /\ standalone.user_data[call.key]
    /\ standalone.bot_data.retry_attempts = Fresh.bot_data.retry_attempts
          \/ standalone.bot_data.retry_attempts >= 1

\* the counter of an admin in admin_stats, 0 when the admin has no entry
AdminCount(admin_stats, admin_id, action) ==
    IF admin_id \in DOMAIN admin_stats THEN admin_stats[admin_id][action] ELSE 0

\* C37: the dispatch that just completed left the entry of its admin in
\* admin_stats with posts and batches one higher than before (counted from 0
\* when the admin had no entry), whatever the number of messages delivered,
\* and every other entry as it was.
C37_AdminStatsOnePerDispatch ==
    done_log.kind # "none"
    => LET before == done_log.admin_stats_before
           after == done_log.admin_stats_after
           admin_id == done_log.admin_id
       IN  /\ DOMAIN after = DOMAIN before \cup {admin_id}
           /\ after[admin_id].posts = AdminCount(before, admin_id, "posts") + 1
           /\ after[admin_id].batches = AdminCount(before, admin_id, "batches") + 1
           /\ \A other \in DOMAIN before \ {admin_id} : after[other] = before[other]

\* a dispatch of an admin who had an entry completed with two messages
\* delivered, while another admin has an entry
C37_Witness ==
    /\ done_log.kind # "none"
    /\ done_log.successful_posts >= 2
    /\ done_log.admin_id \in DOMAIN done_log.admin_stats_before
    /\ DOMAIN done_log.admin_stats_before \ {done_log.admin_id} # {}
    /\ done_log.admin_stats_after[done_log.admin_id].posts
          = done_log.admin_stats_before[done_log.admin_id].posts + 1

\* a dispatch completed for an admin who had no entry
C37_WitnessNewEntry ==
    /\ done_log.kind # "none"
    /\ done_log.admin_id \notin DOMAIN done_log.admin_stats_before
    /\ done_log.admin_stats_after[done_log.admin_id].batches = 1

====
